---- MODULE Spec2Model ----
(***************************************************************************)
(* memefax: incremental crawler (api_test.py), its RateLimiter, and the    *)
(* warehouse importer (import_single_chat.py over the db_init.py schema).  *)
(*                                                                         *)
(* Ten specifications share the module:                                    *)
(*   Spec        crawl runs of one chat (download_messages)                *)
(*   SpecStore   crawl runs plus direct Database.insert_message calls      *)
(*   SpecRL      one RateLimiter on a simulated clock                      *)
(*   SpecMedia   calls of download_media_file over one media directory     *)
(*   SpecEmbed   one call of get_embedding_from_server                     *)
(*   SpecImport  import_chat runs of one chat into the warehouse           *)
(*   SpecConc    two import_chat instances over one warehouse              *)
(*   SpecManifest  ManifestDatabase.update_chat calls on one manifest      *)
(*   SpecPreflight one start of the importer or of the memo generator      *)
(*   SpecAlias     INSERT statements on the warehouse's contact_alias      *)
(*   SpecAll       the --all-users / --all-groups loop of list_chats       *)
(*   SpecAllFair   the same loop, its own steps taken when they can be     *)
(***************************************************************************)
EXTENDS Integers, Sequences, FiniteSets, TLC

\* ------------------------------------------------------------------ bounds

\* Number of messages of the remote chat (their ids are 1..NumMsgs).
NumMsgs == 3
\* Messages per page request of the provider's message iterator.
PageSize == 2
\* Crawl runs of the chat in one behaviour.
MaxRuns == 2
\* Direct insert_message calls in one behaviour.
MaxCalls == 2
\* The snapshot flush period, 1000 in api_test.py:388, scaled down.
FlushEvery == 2
\* MAX_REQUESTS_PER_SECOND, 50 in api_test.py:29, scaled down.
MaxRequests == 2
\* Clock ticks in one minimum interval (1/MAX_REQUESTS_PER_SECOND seconds).
TicksPerInterval == 2
\* Last tick of the simulated clock.
MaxTime == 30
\* Ticks a sleep, or the clock reading after it, may be late by.
MaxLate == 1
\* Messages in the chat's LocalStore when it is imported (ids 1..NumStored).
NumStored == 2
\* import_chat runs in one behaviour.
MaxImports == 3
\* The importer's commit period, 10 in import_single_chat.py:176, scaled down.
CommitEvery == 2
\* Minimum word count of a passage (import_single_chat.py:156).
MinWords == 10
\* MAX_MEDIA_SIZE, 50 MiB in api_test.py:33, scaled down (in bytes).
MAX_MEDIA_SIZE == 2
\* The embedding dimension, 1024 in import_single_chat.py:163, scaled down.
dim == 2
\* Last value of the wall clock the manifest calls read.
MaxClock == 3
\* Selections the importer's prompt is given in one start.
MaxPrompts == 2
\* INSERT statements on contact_alias after one run of db_init.
MaxAliasInserts == 3
\* Chats the --all-users / --all-groups loop goes through, at most.
NumChats == 2
\* Last tick at which a run of the loop still calls wait().
MaxLoopTime == 12

VARIABLES
    \* --- crawler (api_test.py)
    order,              \* order in which the provider's iterator yields messages
    store,              \* LocalStore: committed rows of messages.db
    conn,               \* rows as seen through the open sqlite connection
    pc,                 \* position of download_messages
    runs,               \* runs started so far
    latest_msg_id,      \* api_test.py:320
    total_count,        \* api_test.py:343
    remaining,          \* ids the message iterator has still to request
    buffer,             \* ids of the page the iterator holds
    iterDone,           \* the iterator knows the provider has no further page
    cur,                \* id of the message the loop body works on (0: none)
    media_info,         \* api_test.py:359
    messages,           \* api_test.py:325, the in-memory snapshot batch
    messages_processed, \* api_test.py:327
    file,               \* the run's snapshot file: <<>> none, <<b>> holding batch b
    result,             \* return value of download_messages
    exc,                \* kind of the last exception raised in the run
    netSinceWait,       \* network operations since the last completed wait()
    everAborted,        \* history: an API exception aborted a run that had committed a record
    everSkipped,        \* history: an insert_message call failed
    lastReplaced,       \* history: the stored id the last insert hit (0: none)
    apiCalls,           \* direct insert_message calls so far
    dlRaised,           \* history: the download for the current message raised
    \* --- RateLimiter (api_test.py:157-189)
    now,                \* the simulated clock, time.time()
    last_request_time,
    request_count,      \* _request_count
    window_start,       \* _window_start
    returns,            \* history: return times of wait() in the last second
    prevReturn,         \* history: return time of the wait() before the last
    windowSlept,        \* history: the last wait() slept for the window
    slept,              \* history: the time the last wait() asked to sleep
    \* --- importer (import_single_chat.py)
    lstore,             \* rows of the chat's messages.db read by the importer
    committed,          \* the warehouse tables as committed
    wh,                 \* the tables as seen through pg_conn (with its open transaction)
    ipc,                \* position of import_chat
    idx,                \* index of the current row in the fetched list
    imported,           \* import_single_chat.py:109
    iruns,              \* import runs started so far
    source_id,
    contact_id,
    document_id,
    iresult,            \* how the last import run ended
    completed,          \* history: import runs that completed
    afterFirst,         \* history: the committed tables when the first run completed
    \* --- concurrent importer instances over one warehouse
    pg,                 \* the warehouse tables as committed
    tx,                 \* per instance: the rows of its open transaction
    inst,               \* per instance: position and locals of import_chat
    \* --- download_media_file (api_test.py:253-299)
    mpc,                \* position of download_media_file
    media,              \* per message id of the chat: the message's media
    mid,                \* id of the message the call is about
    disk,               \* per message id: size of its media file, Absent if none
    ret,                \* the value the call returned
    mwaits,             \* RateLimiter.wait() calls made by the call
    mdownloads,         \* download_media requests made by the call
    diskBefore,         \* history: the disk when the call began
    \* --- get_embedding_from_server (import_single_chat.py:26-44)
    etext,              \* the text argument
    response,           \* what the embedding service answers
    emb,                \* the value returned (<<>> before the call)
    \* --- ManifestDatabase (api_test.py:415-576)
    chats,              \* per chat id: its committed row of manifest.db, <<>> if none
    mconn,              \* the rows as seen through the open sqlite connection
    clock,              \* datetime.now(timezone.utc)
    mlast,              \* history: chat, current_time and result of the last update_chat
    \* --- start of the importer and of the memo generator
    pre,                \* the files found, the position of main and what it has done
    \* --- the warehouse's contact_alias table (db_init.py:57-67)
    contact_alias,      \* its rows
    alias_last,         \* history: number, values and outcome of the last INSERT
    \* --- the loop over the selected chats (api_test.py:706-736)
    loop                \* its position, each chat's run, the limiter of the chat before

crawlVars == <<order, store, conn, pc, runs, latest_msg_id, total_count,
               remaining, buffer, iterDone, cur, media_info, messages,
               messages_processed, file, result, exc, netSinceWait,
               everAborted, everSkipped, lastReplaced, apiCalls, dlRaised>>

rlVars == <<now, last_request_time, request_count, window_start, returns,
            prevReturn, windowSlept, slept>>

impVars == <<lstore, committed, wh, ipc, idx, imported, iruns, source_id,
             contact_id, document_id, iresult, completed, afterFirst>>

concVars == <<pg, tx, inst>>

mediaVars == <<mpc, media, mid, disk, ret, mwaits, mdownloads, diskBefore>>

embVars == <<etext, response, emb>>

manVars == <<chats, mconn, clock, mlast>>

aliasVars == <<contact_alias, alias_last>>

toolVars == <<manVars, pre, aliasVars, loop>>

auxVars == <<concVars, mediaVars, embVars, toolVars>>

otherVars == <<rlVars, impVars, auxVars>>

vars == <<crawlVars, otherVars>>

\* ----------------------------------------------------------------- helpers

Max(S) == CHOOSE x \in S : \A y \in S : y <= x
Min(S) == CHOOSE x \in S : \A y \in S : x <= y
Range(s) == {s[i] : i \in DOMAIN s}
Ids(rows) == {r.id : r \in rows}

\* The remote chat: message ids are positive.
SourceIds == 1..NumMsgs

\* Text values of a message: 1 as the source holds it, 2 any other value.
Texts == {1, 2}

\* A stored row / a message_data dict (api_test.py:362-371), reduced to the
\* fields the properties read.
Row(i, t, mf) == [id |-> i, text |-> t, media_files |-> mf]

\* Database.get_latest_message_id: MAX(id), 0 when the table is empty.
get_latest_message_id(rows) ==
    IF Ids(rows) = {} THEN 0 ELSE Max(Ids(rows))

\* INSERT OR REPLACE keyed by the primary key id.
UpsertNoReplace(rows, m) == rows \cup {m}
Upsert(rows, m) == {r \in rows : r.id # m.id} \cup {m}

\* self.conn.commit(): the connection's rows become the committed rows.
CommitMissing(view, durable) == durable
Commit(view, durable) == view

\* iter_messages(chat, min_id=latest_msg_id) if latest_msg_id else
\* iter_messages(chat): min_id is exclusive.
MatchingInclusive(min_id) ==
    IF min_id # 0 THEN {i \in SourceIds : i >= min_id} ELSE SourceIds
Matching(min_id) ==
    IF min_id # 0 THEN {i \in SourceIds : i > min_id} ELSE SourceIds

\* The mode the run is in (api_test.py:334).
Mode == IF latest_msg_id # 0 THEN "DELTA_SYNC" ELSE "FULL_SYNC"

Pick(S) == IF order = "desc" THEN Max(S) ELSE Min(S)

RECURSIVE Chunk(_, _)
Chunk(S, n) ==
    IF n = 0 \/ S = {} THEN <<>>
    ELSE <<Pick(S)>> \o Chunk(S \ {Pick(S)}, n - 1)

\* except Exception: ... return False (api_test.py:406-408).
ExceptReturn == "False"

\* download_media_file's handler (api_test.py:297-299) returns None, and
\* [media_info] if media_info else [] (api_test.py:370) makes it no
\* descriptor.
HandlerReturnPartial(e) == <<"file">>
HandlerReturn(e) == <<>>

\* json.dump(messages, f) when the batch length is a multiple of the period
\* (api_test.py:388-390).
PeriodicSaveNever(batch, f) == f
PeriodicSaveStale(batch, f) ==
    IF Len(batch) % FlushEvery = 0
    THEN <<SubSeq(batch, 1, Len(batch) - 1)>>
    ELSE f
PeriodicSave(batch, f) ==
    IF Len(batch) % FlushEvery = 0 THEN <<batch>> ELSE f

\* if db.insert_message(message_data): ... messages.append(message_data)
\* (api_test.py:383-385): ok is what insert_message returned.
BatchedAlways(batch, m, ok) == Append(batch, m)
Batched(batch, m, ok) == IF ok THEN Append(batch, m) ELSE batch

InRun == pc \notin {"idle", "done"}

\* ------------------------------------------------------ RateLimiter.wait

\* One second and the minimum interval 1.0 / max_requests, in clock ticks.
TicksPerSec == MaxRequests * TicksPerInterval
Interval == TicksPerInterval

\* RateLimiter.__init__ (api_test.py:158-163); time.time() is far from 0.
InitRL ==
    /\ now = TicksPerSec
    /\ last_request_time = 0
    /\ request_count = 0
    /\ window_start = now
    /\ returns = <<>>
    /\ prevReturn = -1
    /\ windowSlept = FALSE
    /\ slept = 0

\* api_test.py:170: the window is reset once a full second has elapsed.
WindowElapsed(current_time, ws) == current_time - ws >= TicksPerSec

\* api_test.py:177-180: the sleep until the next window.
WindowSleepNone(current_time, ws, count) == 0
WindowSleepTwo(current_time, ws, count) ==
    IF count > MaxRequests /\ 2 * TicksPerSec - (current_time - ws) > 0
    THEN 2 * TicksPerSec - (current_time - ws)
    ELSE 0
WindowSleep(current_time, ws, count) ==
    IF count > MaxRequests /\ TicksPerSec - (current_time - ws) > 0
    THEN TicksPerSec - (current_time - ws)
    ELSE 0

\* api_test.py:185-187: the sleep that keeps the minimum interval.
IntervalSleepNone(current_time, last) == 0
IntervalSleepShort(current_time, last) ==
    IF current_time - last < Interval
    THEN Interval - (current_time - last) - 1
    ELSE 0
IntervalSleep(current_time, last) ==
    IF current_time - last < Interval
    THEN Interval - (current_time - last)
    ELSE 0

\* Return times not older than one second before t.
RECURSIVE Recent(_, _)
Recent(s, t) ==
    IF s = <<>> THEN <<>>
    ELSE IF Head(s) + TicksPerSec <= t THEN Recent(Tail(s), t) ELSE s

\* One call of wait() arriving d ticks after the previous return; l1 and l2
\* are the lateness of the window sleep and of the final clock reading.
RLWait ==
    \E d \in 0..(TicksPerSec + 1), l1 \in 0..MaxLate, l2 \in 0..MaxLate :
        LET current_time == now + d
            elapsed == WindowElapsed(current_time, window_start)
            ws1 == IF elapsed THEN current_time ELSE window_start
            c1 == (IF elapsed THEN 0 ELSE request_count) + 1
            wait_time == WindowSleep(current_time, ws1, c1)
            t1 == IF wait_time > 0 THEN current_time + wait_time + l1
                                   ELSE current_time
            sleep2 == IntervalSleep(current_time, last_request_time)
            t2 == t1 + sleep2 + l2
        IN  /\ t2 <= MaxTime
            /\ request_count' = IF wait_time > 0 THEN 1 ELSE c1
            /\ window_start' = IF wait_time > 0 THEN t1 ELSE ws1
            /\ windowSlept' = (wait_time > 0)
            /\ slept' = wait_time + sleep2
            /\ last_request_time' = t2
            /\ now' = t2
            /\ prevReturn' = IF returns = <<>> /\ prevReturn = -1
                              THEN -1 ELSE last_request_time
            /\ returns' = Recent(Append(returns, t2), t2)
    /\ UNCHANGED <<crawlVars, impVars, auxVars>>

NextRL == RLWait

\* ------------------------------------------------- crawler: download_messages

\* State after an earlier completed run over a chat that then held k
\* messages, with r runs of the behaviour's budget used.
InitCrawlFrom(r) ==
    /\ order \in {"desc", "asc"}
    /\ \E k \in 0..NumMsgs : store = {Row(i, 1, <<>>) : i \in 1..k}
    /\ conn = store
    /\ pc = "idle"
    /\ runs = r
    /\ latest_msg_id = 0
    /\ total_count = 0
    /\ remaining = {}
    /\ buffer = <<>>
    /\ iterDone = FALSE
    /\ cur = 0
    /\ media_info = <<>>
    /\ messages = <<>>
    /\ messages_processed = 0
    /\ file = <<>>
    /\ result = "none"
    /\ exc = "none"
    /\ netSinceWait = 0
    /\ everAborted = FALSE
    /\ everSkipped = FALSE
    /\ lastReplaced = 0
    /\ apiCalls = 0
    /\ dlRaised = FALSE

InitCrawl == InitCrawlFrom(0)

iterVars == <<remaining, buffer, iterDone, cur, media_info, dlRaised>>
batchVars == <<messages, messages_processed, file>>
histVars == <<everAborted, everSkipped, lastReplaced, apiCalls>>
runVars == <<order, runs, latest_msg_id, total_count>>

\* A network operation against the remote source.
NetOp(n) == IF n >= 2 THEN 2 ELSE n + 1

\* api_test.py:312-328: connect, read the resumption cursor, fresh batch,
\* fresh snapshot file name, fresh RateLimiter.
Start ==
    /\ pc \in {"idle", "done"}
    /\ runs < MaxRuns
    /\ runs' = runs + 1
    /\ conn' = store
    /\ latest_msg_id' = get_latest_message_id(store)
    /\ total_count' = 0
    /\ remaining' = {}
    /\ buffer' = <<>>
    /\ iterDone' = FALSE
    /\ cur' = 0
    /\ media_info' = <<>>
    /\ dlRaised' = FALSE
    /\ messages' = <<>>
    /\ messages_processed' = 0
    /\ file' = <<>>
    /\ result' = "none"
    /\ exc' = "none"
    /\ netSinceWait' = 0
    /\ pc' = "wait_count"
    /\ UNCHANGED <<order, store, histVars, otherVars>>

\* api_test.py:332: rate_limiter.wait() before the total-count request.
WaitCount ==
    /\ pc = "wait_count"
    /\ netSinceWait' = 0
    /\ pc' = "get_count"
    /\ UNCHANGED <<order, store, conn, runs, latest_msg_id, total_count,
                   iterVars, batchVars, result, exc, histVars, otherVars>>

\* The except clause and the finally clause (api_test.py:406-411): the run
\* returns, the connection is closed and what it had not committed is lost.
Abort(kind) ==
    /\ exc' = kind
    /\ result' = ExceptReturn
    /\ pc' = "done"
    /\ conn' = store
    /\ everAborted' = (everAborted \/ (kind = "api" /\ messages # <<>>))
    /\ UNCHANGED <<store, runVars, iterVars, batchVars, netSinceWait,
                   everSkipped, lastReplaced, apiCalls, otherVars>>

\* api_test.py:334-353: the total-count request (a network operation); a
\* count of 0 ends the run, any other creates the message iterator.
GetCount ==
    /\ pc = "get_count"
    /\ \E t \in 0..NumMsgs :
        /\ total_count' = t
        /\ netSinceWait' = NetOp(netSinceWait)
        /\ IF t = 0
           THEN /\ pc' = "done"
                /\ result' = "True"
                /\ conn' = store
                /\ UNCHANGED remaining
           ELSE /\ pc' = "iter"
                /\ remaining' = Matching(latest_msg_id)
                /\ UNCHANGED <<result, conn>>
    /\ UNCHANGED <<order, store, runs, latest_msg_id, buffer, iterDone, cur,
                   media_info, dlRaised, batchVars, exc, histVars,
                   otherVars>>

\* The total-count request raises (connectivity).
GetCountFails ==
    /\ pc = "get_count"
    /\ Abort("api")

\* async for message in message_iterator (api_test.py:355): with its page
\* used up the iterator requests the next one from the provider; a short
\* page tells it that the provider has no more.
PageFetch ==
    /\ pc = "iter"
    /\ buffer = <<>>
    /\ ~iterDone
    /\ buffer' = Chunk(remaining, PageSize)
    /\ remaining' = remaining \ Range(buffer')
    /\ iterDone' = (Len(buffer') < PageSize)
    /\ netSinceWait' = NetOp(netSinceWait)
    /\ UNCHANGED <<order, store, conn, pc, runs, latest_msg_id, total_count,
                   cur, media_info, dlRaised, batchVars, result, exc,
                   histVars, otherVars>>

\* The page request raises: a fatal iteration/API exception.
PageFetchFails ==
    /\ pc = "iter"
    /\ buffer = <<>>
    /\ ~iterDone
    /\ Abort("api")

\* The iterator hands the next message of its page to the loop body.
NextMessage ==
    /\ pc = "iter"
    /\ buffer # <<>>
    /\ cur' = Head(buffer)
    /\ buffer' = Tail(buffer)
    /\ media_info' = <<>>
    /\ dlRaised' = FALSE
    /\ pc' = "body_wait"
    /\ UNCHANGED <<order, store, conn, runs, latest_msg_id, total_count,
                   remaining, iterDone, batchVars, result, exc, netSinceWait,
                   histVars, otherVars>>

\* api_test.py:356: rate_limiter.wait() at the top of the loop body.
BodyWait ==
    /\ pc = "body_wait"
    /\ netSinceWait' = 0
    /\ pc' = "media"
    /\ UNCHANGED <<order, store, conn, runs, latest_msg_id, total_count,
                   iterVars, batchVars, result, exc, histVars, otherVars>>

\* api_test.py:359 with download_media_file (253-284): no media, or a
\* descriptor obtained without a download (over the size cap, or the file
\* is already on disk).
MediaNoDownload ==
    /\ pc = "media"
    /\ \E mi \in {<<>>, <<"skipped">>, <<"file">>} : media_info' = mi
    /\ pc' = "map"
    /\ UNCHANGED <<order, store, conn, runs, latest_msg_id, total_count,
                   remaining, buffer, iterDone, cur, dlRaised, batchVars,
                   result, exc, netSinceWait, histVars, otherVars>>

\* api_test.py:258-271, 297-299: the size or type lookup raises; caught
\* inside download_media_file, which returns None.
MediaLookupFails ==
    /\ pc = "media"
    /\ media_info' = HandlerReturn("media")
    /\ dlRaised' = TRUE
    /\ exc' = "media"
    /\ pc' = "map"
    /\ UNCHANGED <<order, store, conn, runs, latest_msg_id, total_count,
                   remaining, buffer, iterDone, cur, batchVars, result,
                   netSinceWait, histVars, otherVars>>

\* api_test.py:287: rate_limiter.wait() before the attachment download.
MediaWait ==
    /\ pc = "media"
    /\ netSinceWait' = 0
    /\ pc' = "media_dl"
    /\ UNCHANGED <<order, store, conn, runs, latest_msg_id, total_count,
                   iterVars, batchVars, result, exc, histVars, otherVars>>

\* api_test.py:288-295: the attachment download (a network operation).
MediaDownload ==
    /\ pc = "media_dl"
    /\ netSinceWait' = NetOp(netSinceWait)
    /\ media_info' = <<"file">>
    /\ pc' = "map"
    /\ UNCHANGED <<order, store, conn, runs, latest_msg_id, total_count,
                   remaining, buffer, iterDone, cur, dlRaised, batchVars,
                   result, exc, histVars, otherVars>>

\* api_test.py:288, 297-299: the download raises; caught, None is returned.
MediaDownloadFails ==
    /\ pc = "media_dl"
    /\ netSinceWait' = NetOp(netSinceWait)
    /\ media_info' = HandlerReturn("media")
    /\ dlRaised' = TRUE
    /\ exc' = "media"
    /\ pc' = "map"
    /\ UNCHANGED <<order, store, conn, runs, latest_msg_id, total_count,
                   remaining, buffer, iterDone, cur, batchVars, result,
                   histVars, otherVars>>

\* api_test.py:362-380: building message_data raises; nothing in the loop
\* catches it, so the handler of the whole try block runs.
MapFails ==
    /\ pc = "map"
    /\ Abort("map")

\* api_test.py:362-392 with Database.insert_message (104-140) succeeding:
\* the row is upserted and committed, counted, appended to the batch, and
\* the batch is saved when its length is a multiple of the period.
InsertOk ==
    /\ pc = "map"
    /\ LET m == Row(cur, 1, media_info)
       IN /\ conn' = Upsert(conn, m)
          /\ store' = Commit(conn', store)
          /\ lastReplaced' = IF m.id \in Ids(conn) THEN m.id ELSE 0
          /\ messages_processed' = messages_processed + 1
          /\ messages' = Batched(messages, m, TRUE)
          /\ file' = PeriodicSave(messages', file)
    /\ pc' = "iter"
    /\ UNCHANGED <<runVars, iterVars, result, exc, netSinceWait, everAborted,
                   everSkipped, apiCalls, otherVars>>

\* Database.insert_message fails (141-143): it returns False, the record is
\* neither counted nor batched; the periodic save still looks at the batch.
InsertFails ==
    /\ pc = "map"
    /\ exc' = "store"
    /\ everSkipped' = TRUE
    /\ messages' = Batched(messages, Row(cur, 1, media_info), FALSE)
    /\ file' = PeriodicSave(messages', file)
    /\ pc' = "iter"
    /\ UNCHANGED <<store, conn, runVars, iterVars, messages_processed, result,
                   netSinceWait, everAborted, lastReplaced, apiCalls,
                   otherVars>>

\* api_test.py:394-413: the iterator is exhausted; final save when the batch
\* is not empty, disconnect, return True.
Finish ==
    /\ pc = "iter"
    /\ buffer = <<>>
    /\ iterDone
    /\ file' = IF messages # <<>> THEN <<messages>> ELSE file
    /\ conn' = store
    /\ result' = "True"
    /\ pc' = "done"
    /\ UNCHANGED <<store, runVars, iterVars, messages, messages_processed,
                   exc, netSinceWait, histVars, otherVars>>

NextCrawl ==
    \/ Start
    \/ WaitCount
    \/ GetCount
    \/ GetCountFails
    \/ PageFetch
    \/ PageFetchFails
    \/ NextMessage
    \/ BodyWait
    \/ MediaNoDownload
    \/ MediaLookupFails
    \/ MediaWait
    \/ MediaDownload
    \/ MediaDownloadFails
    \/ MapFails
    \/ InsertOk
    \/ InsertFails
    \/ Finish

\* ------------------------------- AttachmentFetcher: download_media_file

\* Ids of the messages whose media the calls are about.
MediaIds == {1, 2}

\* None as a media size (api_test.py:250), and a file that is not on disk.
NoSize == -1
Absent == -1

\* Sizes the provider reports: 0 up to one byte over the cap.
Sizes == 0..(MAX_MEDIA_SIZE + 1)

\* message.media: nothing, a photo, a document of a reported size, a
\* document whose document attribute is missing, any other media.
MediaKinds ==
    {[kind |-> k, size |-> NoSize] : k \in {"none", "photo", "other", "broken"}}
        \cup {[kind |-> "document", size |-> s] : s \in Sizes}

\* get_media_size (api_test.py:244-251).
get_media_size(m) == IF m.kind = "document" THEN m.size ELSE NoSize

\* api_test.py:261: media_size and media_size > MAX_MEDIA_SIZE.
OverCapInclusive(media_size) ==
    media_size # NoSize /\ media_size # 0 /\ media_size >= MAX_MEDIA_SIZE
OverCap(media_size) ==
    media_size # NoSize /\ media_size # 0 /\ media_size > MAX_MEDIA_SIZE

\* get_media_type (api_test.py:216-242): the kind part of the name; the
\* kinds a document's mime type selects are not told apart. "" is None.
get_media_type(m) ==
    IF m.kind = "photo" THEN "photo"
    ELSE IF m.kind = "document" THEN "document"
    ELSE ""

\* api_test.py:274-275: {media_type}_{message.id}_{timestamp}{extension};
\* the timestamp and the extension are functions of the message.
NoName == <<>>
Filename(media_type, id) == <<media_type, id>>

\* api_test.py:262-267.
SkippedDescriptorNamed(m, id) ==
    [type |-> "skipped", filename |-> Filename("skipped", id),
     size |-> get_media_size(m)]
SkippedDescriptor(m, id) ==
    [type |-> "skipped", filename |-> NoName, size |-> get_media_size(m)]

\* api_test.py:280-284 and 291-295.
Descriptor(media_type, id, size) ==
    [type |-> media_type, filename |-> Filename(media_type, id),
     size |-> size]

\* os.path.exists(filepath) (api_test.py:279).
ExistsNever(d, id) == FALSE
Exists(d, id) == d[id] # Absent

\* Sizes a completed download leaves on disk: a document has the size the
\* provider reported; a photo has no reported size and may be of any.
ActualSizes(m) ==
    IF m.kind = "document" THEN {m.size} ELSE {1, MAX_MEDIA_SIZE + 1}

MediaParked ==
    /\ mpc = "idle"
    /\ media = [i \in MediaIds |-> [kind |-> "none", size |-> NoSize]]
    /\ mid = 1
    /\ disk = [i \in MediaIds |-> Absent]
    /\ ret = <<>>
    /\ mwaits = 0
    /\ mdownloads = 0
    /\ diskBefore = [i \in MediaIds |-> Absent]

\* An empty media directory and a chat whose messages carry any media.
InitMedia ==
    /\ mpc = "idle"
    /\ media \in [MediaIds -> MediaKinds]
    /\ mid = 1
    /\ disk = [i \in MediaIds |-> Absent]
    /\ ret = <<>>
    /\ mwaits = 0
    /\ mdownloads = 0
    /\ diskBefore = disk

\* download_media_file(message, media_dir, rate_limiter) is called.
MCall ==
    /\ mpc \in {"idle", "done"}
    /\ \E i \in MediaIds : mid' = i
    /\ ret' = <<>>
    /\ mwaits' = 0
    /\ mdownloads' = 0
    /\ diskBefore' = disk
    /\ mpc' = "gate"
    /\ UNCHANGED <<media, disk>>

\* api_test.py:255-267: no media returns None; the size lookup of a broken
\* document raises and the handler (297-299) returns None; a size over the
\* cap returns the skipped descriptor.
MGate ==
    /\ mpc = "gate"
    /\ LET m == media[mid]
       IN IF m.kind \in {"none", "broken"}
          THEN ret' = <<>> /\ mpc' = "done"
          ELSE IF OverCap(get_media_size(m))
          THEN ret' = <<SkippedDescriptor(m, mid)>> /\ mpc' = "done"
          ELSE ret' = ret /\ mpc' = "name"
    /\ UNCHANGED <<media, mid, disk, mwaits, mdownloads, diskBefore>>

\* api_test.py:269-284: no media type returns None; a file of the name on
\* disk returns its descriptor with the size found there.
MName ==
    /\ mpc = "name"
    /\ LET media_type == get_media_type(media[mid])
       IN IF media_type = ""
          THEN ret' = <<>> /\ mpc' = "done"
          ELSE IF Exists(disk, mid)
          THEN /\ ret' = <<Descriptor(media_type, mid, disk[mid])>>
               /\ mpc' = "done"
          ELSE ret' = ret /\ mpc' = "wait"
    /\ UNCHANGED <<media, mid, disk, mwaits, mdownloads, diskBefore>>

\* api_test.py:287: await rate_limiter.wait().
MWait ==
    /\ mpc = "wait"
    /\ mwaits' = mwaits + 1
    /\ mpc' = "download"
    /\ UNCHANGED <<media, mid, disk, ret, mdownloads, diskBefore>>

\* api_test.py:288-295: the download writes the file; its size on disk is
\* returned.
MDownloadOk ==
    /\ mpc = "download"
    /\ mdownloads' = mdownloads + 1
    /\ \E actual_size \in ActualSizes(media[mid]) :
        /\ disk' = [disk EXCEPT ![mid] = actual_size]
        /\ ret' = <<Descriptor(get_media_type(media[mid]), mid, actual_size)>>
    /\ mpc' = "done"
    /\ UNCHANGED <<media, mid, mwaits, diskBefore>>

\* api_test.py:288, 297-299: the download raises, with nothing or an empty
\* file left under the name; the handler returns None.
MDownloadRaises ==
    /\ mpc = "download"
    /\ mdownloads' = mdownloads + 1
    /\ \/ disk' = disk
       \/ disk' = [disk EXCEPT ![mid] = 0]
    /\ ret' = <<>>
    /\ mpc' = "done"
    /\ UNCHANGED <<media, mid, mwaits, diskBefore>>

NextMedia ==
    /\ \/ MCall
       \/ MGate
       \/ MName
       \/ MWait
       \/ MDownloadOk
       \/ MDownloadRaises
    /\ UNCHANGED <<crawlVars, rlVars, impVars, concVars, embVars, toolVars>>

\* ------------------------------ EmbeddingClient: get_embedding_from_server

\* A numpy array: its shape and its entries in row-major order.
Array(shape, flat) == [shape |-> shape, flat |-> flat]

\* np.zeros(d, dtype=np.float32).
Zeros(d) == Array(<<d>>, [i \in 1..d |-> 0])

\* emb[:d] (import_single_chat.py:38): the first d entries along axis 0.
Slice(a, d) ==
    IF Len(a.shape) = 1
    THEN Array(<<d>>, SubSeq(a.flat, 1, d))
    ELSE Array(<<d, a.shape[2]>>, SubSeq(a.flat, 1, d * a.shape[2]))

\* np.pad(emb, (0, k)) (import_single_chat.py:40): k zeros after the end of
\* every axis.
Pad(a, k) ==
    IF Len(a.shape) = 1
    THEN Array(<<a.shape[1] + k>>, a.flat \o [i \in 1..k |-> 0])
    ELSE LET n == a.shape[1]
             m == a.shape[2]
         IN Array(<<n + k, m + k>>,
                  [x \in 1..((n + k) * (m + k)) |->
                     LET i == ((x - 1) \div (m + k)) + 1
                         j == ((x - 1) % (m + k)) + 1
                     IN IF i <= n /\ j <= m THEN a.flat[(i - 1) * m + j]
                                            ELSE 0])

\* not text or not text.strip() (import_single_chat.py:27).
Blank(text) == text \in {"", " "}

\* What the service can answer. A failure is a transport error, an HTTP
\* error status, or a body from which response.json()[0]["embedding"][0]
\* cannot be taken or made an array (import_single_chat.py:30-36); an answer
\* that parses gives the array np.array makes of it.
NoArray == Array(<<>>, <<>>)
Failures ==
    {[kind |-> k, array |-> NoArray] :
        k \in {"transport", "http_error", "malformed"}}
Scalars == {[kind |-> "ok", array |-> Array(<<>>, <<1>>)]}
Vectors ==
    UNION {{[kind |-> "ok", array |-> Array(<<n>>, f)] :
                f \in [1..n -> {0, 1}]} : n \in 0..(dim + 1)}
Matrices ==
    {[kind |-> "ok", array |-> Array(<<n, m>>, [x \in 1..(n * m) |-> 1])] :
        n \in 1..(dim + 1), m \in 1..2}
Responses == Failures \cup Scalars \cup Vectors \cup Matrices

\* get_embedding_from_server(text, dim) given the service's answer.
get_embedding_from_server(text, resp, d) ==
    IF Blank(text) THEN Zeros(d)
    ELSE IF resp.kind # "ok" THEN Zeros(d)
    ELSE IF resp.array.shape = <<>> THEN Zeros(d)
    ELSE IF resp.array.shape[1] > d THEN Slice(resp.array, d)
    ELSE IF resp.array.shape[1] < d
         THEN Pad(resp.array, d - resp.array.shape[1])
    ELSE resp.array

EmbedParked ==
    /\ etext = "text"
    /\ response = [kind |-> "transport", array |-> NoArray]
    /\ emb = <<>>

InitEmbed ==
    /\ etext \in {"", " ", "text"}
    /\ response \in Responses
    /\ emb = <<>>

\* One call of get_embedding_from_server(text, 1024).
Embed ==
    /\ emb = <<>>
    /\ emb' = <<get_embedding_from_server(etext, response, dim)>>
    /\ UNCHANGED <<etext, response>>
    /\ UNCHANGED <<crawlVars, rlVars, impVars, concVars, mediaVars, toolVars>>

NextEmbed == Embed

\* ------------------------------------- ManifestDatabase: update_chat

\* The chats the provider lists and the names it reports for them.
ChatIds == {1, 2}
ChatNames == {"a", "b"}

\* INSERT INTO chats (api_test.py:530-560): first_seen, last_seen and
\* last_updated are all the call's current_time.
InsertChat(name, t) ==
    <<[name |-> name, first_seen |-> t, last_seen |-> t, last_updated |-> t]>>

\* UPDATE chats SET name, ..., last_seen, last_updated, ... WHERE chat_id
\* (api_test.py:497-527): first_seen is not in the SET list.
UpdateChatResets(row, name, t) == InsertChat(name, t)
UpdateChat(row, name, t) ==
    <<[row[1] EXCEPT !.name = name, !.last_seen = t, !.last_updated = t]>>

\* No manifest call has been made.
ManifestParked ==
    /\ chats = [c \in ChatIds |-> <<>>]
    /\ mconn = chats
    /\ clock = 0
    /\ mlast = [chat_id |-> 0, current_time |-> 0, ret |-> "none"]

\* update_chat(chat_data) (api_test.py:479-566): select the chat's row, read
\* the clock, update the row or insert one, commit, return True; when the
\* statement or the commit raises the handler returns False (a statement that
\* ran stays in the connection's open transaction).
update_chat ==
    \E c \in ChatIds, name \in ChatNames :
        LET current_time == clock
            found == mconn[c]
            row == IF found # <<>> THEN UpdateChat(found, name, current_time)
                   ELSE InsertChat(name, current_time)
        IN \/ /\ mconn' = [mconn EXCEPT ![c] = row]
              /\ chats' = mconn'
              /\ mlast' = [chat_id |-> c, current_time |-> current_time,
                           ret |-> "True"]
           \/ /\ mconn' \in {mconn, [mconn EXCEPT ![c] = row]}
              /\ mlast' = [chat_id |-> c, current_time |-> current_time,
                           ret |-> "False"]
              /\ UNCHANGED chats
    /\ UNCHANGED clock

\* disconnect() and a later connect() (api_test.py:421-477): what the
\* connection had not committed is gone.
ManifestReconnect ==
    /\ mconn' = chats
    /\ UNCHANGED <<chats, clock, mlast>>

\* The wall clock moves on.
ClockTick ==
    /\ clock < MaxClock
    /\ clock' = clock + 1
    /\ UNCHANGED <<chats, mconn, mlast>>

NextManifest ==
    /\ \/ update_chat
       \/ ManifestReconnect
       \/ ClockTick
    /\ UNCHANGED <<crawlVars, rlVars, impVars, concVars, mediaVars, embVars,
                   pre, aliasVars, loop>>

\* ------- start-up of import_single_chat.main and generate_chat_memo.main

\* Chat ids a user may name: those of the provider and one it never listed.
AskIds == ChatIds \cup {3}

\* What the importer's prompt reads: a digit string (a list number) or any
\* other string (compared with the listed chat ids).
Inputs == [kind : {"number", "id"}, n : AskIds]

\* fetchall() of the manifest's chats (import_single_chat.py:53-54).
RECURSIVE Listing(_)
Listing(S) ==
    IF S = {} THEN <<>> ELSE <<Min(S)>> \o Listing(S \ {Min(S)})

\* select_chat's reading of one input (import_single_chat.py:65-73): the
\* chat it returns, 0 when the input selects none.
Selected(chat_list, sel) ==
    IF sel.kind = "number"
    THEN IF sel.n <= Len(chat_list) THEN chat_list[sel.n] ELSE 0
    ELSE IF \E i \in 1..Len(chat_list) : chat_list[i] = sel.n THEN sel.n
         ELSE 0

\* Neither tool has been started.
PreflightParked ==
    pre = [tool |-> "none", manifest |-> FALSE, listed |-> {}, stores |-> {},
           pc |-> "exit", chat_id |-> 0, asked |-> 0, prompts |-> 0,
           pg_open |-> FALSE, wrote |-> FALSE, status |-> "none"]

\* One of the tools is started over any state of the download directory; the
\* memo generator is given its --chat-id.
InitPreflight ==
    \E t \in {"importer", "memo"}, m \in BOOLEAN, l, st \in SUBSET ChatIds,
       a \in AskIds :
        /\ ~m => l = {}
        /\ t = "importer" => a = 1
        /\ pre = [tool |-> t, manifest |-> m, listed |-> l, stores |-> st,
                  pc |-> "start", chat_id |-> IF t = "memo" THEN a ELSE 0,
                  asked |-> 0, prompts |-> 0, pg_open |-> FALSE,
                  wrote |-> FALSE, status |-> "none"]

\* The tool stops: sys.exit(1) or print(e); return with "error", the end of
\* main with "ok".
Stop(status) == [pre EXCEPT !.pc = "exit", !.status = status]

\* import_single_chat.py:186-189: list_chats and the empty-list test.
ImporterListChats ==
    /\ pre.tool = "importer"
    /\ pre.pc = "start"
    /\ pre' = IF ~pre.manifest \/ pre.listed = {} THEN Stop("error")
              ELSE [pre EXCEPT !.pc = "select"]

\* select_chat (58-74): one round of the prompt loop; an input that selects
\* no listed chat is answered "Invalid selection. Please try again." and the
\* loop prompts again.
ImporterSelect ==
    /\ pre.pc = "select"
    /\ pre.prompts < MaxPrompts
    /\ \E sel \in Inputs :
        LET chat == Selected(Listing(pre.listed), sel)
        IN pre' = [pre EXCEPT
                     !.prompts = @ + 1,
                     !.asked = IF sel.kind = "id" THEN sel.n ELSE 0,
                     !.chat_id = chat,
                     !.pc = IF chat # 0 THEN "chat_db" ELSE "select"]

\* get_chat_db_path (76-81).
ImporterChatDb ==
    /\ pre.pc = "chat_db"
    /\ pre' = IF pre.chat_id \in pre.stores THEN [pre EXCEPT !.pc = "connect"]
              ELSE Stop("error")

\* connect_postgres() (192).
ImporterConnect ==
    /\ pre.pc = "connect"
    /\ pre' = [pre EXCEPT !.pc = "import", !.pg_open = TRUE]

\* import_chat and the end of main (193-196).
ImporterImport ==
    /\ pre.pc = "import"
    /\ pre' = [Stop("ok") EXCEPT !.wrote = TRUE]

\* generate_chat_memo.py:287-291 with ensure_chat_exists (77-92).
MemoEnsure ==
    /\ pre.tool = "memo"
    /\ pre.pc = "start"
    /\ pre' = IF ~pre.manifest \/ pre.chat_id \notin pre.listed
              THEN [Stop("error") EXCEPT !.asked = pre.chat_id]
              ELSE [pre EXCEPT !.pc = "load", !.asked = pre.chat_id]

\* generate_chat_memo.py:294-302 with load_messages (95-123): a missing
\* store is an error, an empty date range ends the tool without a memo.
MemoLoad ==
    /\ pre.pc = "load"
    /\ \E found \in BOOLEAN :
        pre' = IF pre.chat_id \notin pre.stores THEN Stop("error")
               ELSE IF found THEN [pre EXCEPT !.pc = "write"]
               ELSE Stop("ok")

\* generate_chat_memo.py:304-367: the memo file is written.
MemoWrite ==
    /\ pre.pc = "write"
    /\ pre' = [Stop("ok") EXCEPT !.wrote = TRUE]

NextPreflight ==
    /\ \/ ImporterListChats
       \/ ImporterSelect
       \/ ImporterChatDb
       \/ ImporterConnect
       \/ ImporterImport
       \/ MemoEnsure
       \/ MemoLoad
       \/ MemoWrite
    /\ UNCHANGED <<crawlVars, rlVars, impVars, concVars, mediaVars, embVars,
                   manVars, aliasVars, loop>>

\* -------------------------------- the contact_alias table of db_init.py

\* kind and value of an alias (both TEXT NOT NULL, db_init.py:62-63).
AliasPairs == {"name", "handle"} \X {"x", "y"}

\* UNIQUE(kind, value) (db_init.py:65): the index holds a row of the pair.
AliasConflictNever(rows, kind, value) == FALSE
AliasConflict(rows, kind, value) ==
    \E a \in rows : a.kind = kind /\ a.value = value

\* CREATE TABLE contact_alias (db_init.py:58-67): no row, a fresh sequence.
AliasParked ==
    /\ contact_alias = {}
    /\ alias_last = [n |-> 0, kind |-> "", value |-> "", outcome |-> "none"]

\* One INSERT INTO contact_alias (contact_id, kind, value), plain or with ON
\* CONFLICT DO NOTHING, for any contact (0: NULL): the BIGSERIAL id is drawn,
\* then the unique index refuses a pair it holds (the statement raises
\* unique_violation, or inserts nothing under DO NOTHING).
AliasInsert ==
    /\ alias_last.n < MaxAliasInserts
    /\ \E c \in 0..2, kv \in AliasPairs, on_conflict \in {"raise", "nothing"} :
        LET id == alias_last.n + 1
            conflict == AliasConflict(contact_alias, kv[1], kv[2])
        IN /\ contact_alias' =
                IF conflict THEN contact_alias
                ELSE contact_alias \cup
                        {[id |-> id, contact_id |-> c, kind |-> kv[1],
                          value |-> kv[2], is_primary |-> FALSE]}
           /\ alias_last' =
                [n |-> id, kind |-> kv[1], value |-> kv[2],
                 outcome |-> IF ~conflict THEN "inserted"
                             ELSE IF on_conflict = "raise"
                                  THEN "unique_violation" ELSE "nothing"]

\* db_init.main runs again (db_init.py:25-67): the table is dropped and
\* created anew.
AliasDbInit ==
    /\ contact_alias' = {}
    /\ alias_last' = [n |-> 0, kind |-> "", value |-> "", outcome |-> "none"]

NextAlias ==
    /\ \/ AliasInsert
       \/ AliasDbInit
    /\ UNCHANGED <<crawlVars, rlVars, impVars, concVars, mediaVars, embVars,
                   manVars, pre, loop>>

\* ------------- list_chats: the loop of --all-users and --all-groups

\* The loop is not running.
AllParked ==
    loop = [pc |-> "parked", n |-> 0, i |-> 0, status |-> <<>>,
            prev_last |-> 0, prev_returns |-> <<>>]

\* What the loop does with the value download_messages returned
\* (api_test.py:715-718, 731-734): it prints one line or the other and goes
\* on to the next chat.
LoopAfterStops(ok) == IF ok THEN "loop" ELSE "exit"
LoopAfter(ok) == "loop"

\* The next chat of the loop: download_messages is called and builds its
\* own RateLimiter (api_test.py:712-715, 301-328, 158-163). The limiter of
\* the chat before is kept as history.
AllNext ==
    /\ loop.pc = "loop"
    /\ loop.i < loop.n
    /\ loop' = [loop EXCEPT !.i = @ + 1,
                            !.pc = "run",
                            !.status[loop.i + 1] = "running",
                            !.prev_last =
                                IF last_request_time # 0
                                THEN last_request_time ELSE @,
                            !.prev_returns = Recent(@ \o returns, now)]
    /\ last_request_time' = 0
    /\ request_count' = 0
    /\ window_start' = now
    /\ returns' = <<>>
    /\ prevReturn' = -1
    /\ windowSlept' = FALSE
    /\ slept' = 0
    /\ UNCHANGED <<now, crawlVars, impVars, concVars, mediaVars, embVars,
                   manVars, pre, aliasVars>>

\* A rate_limiter.wait() of the chat's run (api_test.py:332, 352, 364).
AllWait ==
    /\ loop.pc = "run"
    /\ now <= MaxLoopTime
    /\ RLWait

\* download_messages returns: True, or False from its except clause
\* (api_test.py:406-413); the wait at line 332 has returned by then.
AllReturn ==
    /\ loop.pc = "run"
    /\ last_request_time # 0
    /\ \E ok \in BOOLEAN :
          loop' = [loop EXCEPT
                     !.status[loop.i] = IF ok THEN "completed" ELSE "aborted",
                     !.pc = LoopAfter(ok)]
    /\ UNCHANGED <<crawlVars, rlVars, impVars, concVars, mediaVars, embVars,
                   manVars, pre, aliasVars>>

\* No chat is left, or none was there (api_test.py:707-709, 719-720).
AllDone ==
    /\ loop.pc = "loop"
    /\ loop.i = loop.n
    /\ loop' = [loop EXCEPT !.pc = "exit"]
    /\ UNCHANGED <<crawlVars, rlVars, impVars, concVars, mediaVars, embVars,
                   manVars, pre, aliasVars>>

NextAll ==
    \/ AllNext
    \/ AllWait
    \/ AllReturn
    \/ AllDone

ToolsParked == ManifestParked /\ PreflightParked /\ AliasParked /\ AllParked

\* The tables an import touches, empty as db_init.py leaves them.
EmptyWarehouse ==
    [source |-> {}, contact |-> {}, document |-> {}, attachment |-> {},
     passage |-> {}, passage_embedding |-> {}]

\* The importer at rest, for the specifications it takes no part in.
ImportParked ==
    /\ lstore = {}
    /\ committed = EmptyWarehouse
    /\ wh = EmptyWarehouse
    /\ ipc = "idle"
    /\ idx = 0
    /\ imported = 0
    /\ iruns = 0
    /\ source_id = 0
    /\ contact_id = 0
    /\ document_id = 0
    /\ iresult = "none"
    /\ completed = 0
    /\ afterFirst = EmptyWarehouse

\* The name of the chat's source row, str(chat_id).
ChatName == "chat"

\* The importer instances of the concurrent specification.
Inst == {1, 2}

\* No concurrent instance has started.
ConcParked ==
    /\ pg = EmptyWarehouse
    /\ tx = [i \in Inst |-> EmptyWarehouse]
    /\ inst = [i \in Inst |->
                [pc |-> "idle", idx |-> 0, imported |-> 0, source_id |-> 0,
                 contact_id |-> 0, document_id |-> 0, result |-> "none",
                 chat |-> ChatName]]

AuxParked == ConcParked /\ MediaParked /\ EmbedParked /\ ToolsParked

Init == InitCrawl /\ InitRL /\ ImportParked /\ AuxParked

Next == NextCrawl

Spec == Init /\ [][Next]_vars

\* A direct call of Database.insert_message between runs (connect, insert,
\* disconnect), with any id of the chat and any text.
InsertMessageCall ==
    /\ pc \in {"idle", "done"}
    /\ apiCalls < MaxCalls
    /\ apiCalls' = apiCalls + 1
    /\ \E i \in SourceIds, t \in Texts :
        LET m == Row(i, t, <<>>)
        IN /\ store' = Commit(Upsert(store, m), store)
           /\ lastReplaced' = IF i \in Ids(store) THEN i ELSE 0
    /\ conn' = store'
    /\ UNCHANGED <<runVars, pc, iterVars, batchVars, result, exc,
                   netSinceWait, everAborted, everSkipped, otherVars>>

InsertMessageFails ==
    /\ pc \in {"idle", "done"}
    /\ apiCalls < MaxCalls
    /\ apiCalls' = apiCalls + 1
    /\ everSkipped' = TRUE
    /\ UNCHANGED <<store, conn, runVars, pc, iterVars, batchVars, result, exc,
                   netSinceWait, everAborted, lastReplaced, otherVars>>

NextStore ==
    \/ NextCrawl
    \/ InsertMessageCall
    \/ InsertMessageFails

\* An empty LocalStore, direct calls and one crawl run in any order.
InitStore ==
    /\ InitCrawlFrom(MaxRuns - 1)
    /\ store = {}
    /\ InitRL
    /\ ImportParked
    /\ AuxParked

SpecStore == InitStore /\ [][NextStore]_vars

\* The limiter alone: the crawler does not move.
InitLimiter ==
    /\ InitRL
    /\ InitCrawl
    /\ order = "desc"
    /\ store = {}
    /\ ImportParked
    /\ AuxParked

SpecRL == InitLimiter /\ [][NextRL]_vars

\* download_media_file alone.
InitFetcher ==
    /\ InitMedia
    /\ InitCrawl
    /\ order = "desc"
    /\ store = {}
    /\ InitRL
    /\ ImportParked
    /\ ConcParked
    /\ EmbedParked
    /\ ToolsParked

SpecMedia == InitFetcher /\ [][NextMedia]_vars

\* get_embedding_from_server alone.
InitEmbedder ==
    /\ InitEmbed
    /\ InitCrawl
    /\ order = "desc"
    /\ store = {}
    /\ InitRL
    /\ ImportParked
    /\ ConcParked
    /\ MediaParked
    /\ ToolsParked

SpecEmbed == InitEmbedder /\ [][NextEmbed]_vars

\* The crawler, the limiter and the importer at rest.
Rest ==
    /\ InitCrawl
    /\ order = "desc"
    /\ store = {}
    /\ InitRL
    /\ ImportParked
    /\ ConcParked
    /\ MediaParked
    /\ EmbedParked

\* update_chat calls on an empty manifest.
InitManifest ==
    ManifestParked /\ PreflightParked /\ AliasParked /\ AllParked /\ Rest

SpecManifest == InitManifest /\ [][NextManifest]_vars

\* One start of the importer or of the memo generator.
InitStarter ==
    InitPreflight /\ ManifestParked /\ AliasParked /\ AllParked /\ Rest

SpecPreflight == InitStarter /\ [][NextPreflight]_vars

\* INSERT statements on the contact_alias table db_init creates.
InitAliases ==
    AliasParked /\ ManifestParked /\ PreflightParked /\ AllParked /\ Rest

SpecAlias == InitAliases /\ [][NextAlias]_vars

\* The loop before its first chat, over any number of selected chats.
InitAll ==
    /\ \E n \in 0..NumChats :
          loop = [pc |-> "loop", n |-> n, i |-> 0,
                  status |-> [c \in 1..n |-> "pending"],
                  prev_last |-> 0, prev_returns |-> <<>>]
    /\ ManifestParked
    /\ PreflightParked
    /\ AliasParked
    /\ Rest

SpecAll == InitAll /\ [][NextAll]_vars

\* The loop is one coroutine that nothing else competes with: a step of its
\* own that can be taken is taken.
SpecAllFair ==
    InitAll /\ [][NextAll]_vars /\ WF_vars(AllNext) /\ WF_vars(AllDone)

\* ------------------------------------------- importer: import_chat

\* What a stored message can look like: sender json (empty: none), its text
\* (words, and whether whitespace surrounds them), stored media_files json:
\* NULL, a text json.loads refuses, or a list of descriptors (the crawler
\* stores the one descriptor of a message, api_test.py:370 and 119; a list
\* of two stands for any longer list).
Kinds ==
    { [sender |-> "",  padded |-> TRUE,  words |-> 0,
       media |-> [json |-> "null", files |-> <<>>]],
      [sender |-> "a", padded |-> TRUE,  words |-> MinWords + 1,
       media |-> [json |-> "list",
                  files |-> <<SkippedDescriptor(
                                [kind |-> "document",
                                 size |-> MAX_MEDIA_SIZE + 1], 1)>>]],
      [sender |-> "a", padded |-> FALSE, words |-> MinWords,
       media |-> [json |-> "bad", files |-> <<>>]],
      [sender |-> "b", padded |-> TRUE, words |-> MinWords + 1,
       media |-> [json |-> "bad", files |-> <<>>]],
      [sender |-> "b", padded |-> FALSE, words |-> MinWords + 1,
       media |-> [json |-> "list",
                  files |-> <<Descriptor("photo", 1, 1),
                              Descriptor("document", 1, 2)>>]] }

StoredRow(i, k) ==
    [id |-> i, date |-> i, sender |-> k.sender,
     text |-> [padded |-> k.padded, words |-> k.words], media |-> k.media]

\* text.strip() and len(passage_text.split()) (import_single_chat.py:155-156).
Strip(text) == [text EXCEPT !.padded = FALSE]
WordCount(text) == text.words

\* passage_text and len(passage_text.split()) > 10.
LongEnoughInclusive(passage_text) ==
    WordCount(passage_text) # 0 /\ WordCount(passage_text) >= MinWords
LongEnough(passage_text) ==
    WordCount(passage_text) # 0 /\ WordCount(passage_text) > MinWords

\* if imported % 10 == 0: pg_conn.commit() (import_single_chat.py:176-177).
PeriodicCommitNever(n) == FALSE
PeriodicCommit(n) == n % CommitEvery = 0

\* if media_files: files = json.loads(media_files); for f in files
\* (import_single_chat.py:143-153): the number of inserts, one per
\* descriptor whatever it describes; a text that does not parse raises into
\* the handler before any insert.
DescriptorCountBadOne(media_files) ==
    IF media_files.json = "list" THEN Len(media_files.files)
    ELSE IF media_files.json = "bad" THEN 1 ELSE 0
DescriptorCountNamed(media_files) ==
    IF media_files.json = "list"
    THEN Len(SelectSeq(media_files.files, LAMBDA f : f.filename # NoName))
    ELSE 0
DescriptorCount(media_files) ==
    IF media_files.json = "list" THEN Len(media_files.files) ELSE 0

\* SELECT id FROM contact WHERE canonical = sender
\* (import_single_chat.py:121).
ContactLookupNone(tables, sender) == {}
ContactLookup(tables, sender) ==
    {c \in tables.contact : c.canonical = sender}

\* VECTOR(1024) (db_init.py:121): the column takes a one-dimensional value
\* of the declared dimension and nothing else.
VectorAccepts(a) == a.shape = <<dim>>

\* Answers of the embedding service during an import: a failed request, a
\* vector of the dimension, a nested list.
ImportResponses ==
    { [kind |-> "transport", array |-> NoArray],
      [kind |-> "ok", array |-> Array(<<dim>>, [i \in 1..dim |-> 1])],
      [kind |-> "ok", array |-> Array(<<1, 1>>, <<1>>)] }

\* The rows of a passage and of its embedding (import_single_chat.py:157-173).
PassageRow(id, doc, passage_text) ==
    [id |-> id, document_id |-> doc, level |-> "P", start_tok |-> 0,
     end_tok |-> WordCount(passage_text), text |-> passage_text]
EmbeddingRow(id, passage_id, e) ==
    [id |-> id, passage_id |-> passage_id, embedding |-> e.flat]

\* SELECT * FROM messages ORDER BY date ASC (import_single_chat.py:105).
RECURSIVE OrderByDate(_)
OrderByDateDesc(rows) ==
    CHOOSE sq \in [1..Cardinality(rows) -> rows] :
        /\ \A r \in rows : \E i \in 1..Cardinality(rows) : sq[i] = r
        /\ \A i \in 1..Cardinality(rows) : \A j \in i..Cardinality(rows) :
              sq[i].date >= sq[j].date
OrderByDate(rows) ==
    IF rows = {} THEN <<>>
    ELSE LET first == CHOOSE r \in rows : \A q \in rows : r.date <= q.date
         IN <<first>> \o OrderByDate(rows \ {first})

Msgs == OrderByDate(lstore)

\* BIGSERIAL: a fresh id of the table.
NextId(tbl) == IF tbl = {} THEN 1 ELSE Max({r.id : r \in tbl}) + 1

\* UNIQUE(source_id, ext_id) with ON CONFLICT DO NOTHING (db_init.py:90,
\* import_single_chat.py:133): the insert finds the pair taken.
DocConflictNever(tables, sid, ext) == FALSE
DocConflict(tables, sid, ext) ==
    \E d \in tables.document : d.source_id = sid /\ d.ext_id = ext

\* import_single_chat.py:137-141: no row returned, continue with the next
\* message (head is the position of the loop head).
OnConflictProceed(head) == "attach"
OnConflict(head) == head

\* The loop head: the next row, or the end of the loop.
LoopHead(i) == IF i > Len(Msgs) THEN "final" ELSE "contact"

InitImport ==
    /\ \E f \in [1..NumStored -> Kinds] :
          lstore = {StoredRow(i, f[i]) : i \in 1..NumStored}
    /\ committed = EmptyWarehouse
    /\ wh = EmptyWarehouse
    /\ ipc = "idle"
    /\ idx = 0
    /\ imported = 0
    /\ iruns = 0
    /\ source_id = 0
    /\ contact_id = 0
    /\ document_id = 0
    /\ iresult = "none"
    /\ completed = 0
    /\ afterFirst = EmptyWarehouse

impGhost == <<completed, afterFirst>>

\* main and import_chat up to the source lookup (import_single_chat.py:
\* 186-92): a new connection sees the committed tables.
ImpStart ==
    /\ ipc \in {"idle", "done"}
    /\ iruns < MaxImports
    /\ iruns' = iruns + 1
    /\ wh' = committed
    /\ idx' = 1
    /\ imported' = 0
    /\ source_id' = 0
    /\ contact_id' = 0
    /\ document_id' = 0
    /\ iresult' = "none"
    /\ ipc' = "source"
    /\ emb' = <<>>
    /\ UNCHANGED <<lstore, committed, impGhost, crawlVars, rlVars, concVars,
                   mediaVars, toolVars, etext, response>>

\* import_single_chat.py:94-107: look the source up, insert and commit it
\* when it is not there; read the messages.
ImpSource ==
    /\ ipc = "source"
    /\ LET found == {r \in wh.source : r.name = ChatName}
       IN IF found # {}
          THEN /\ source_id' = (CHOOSE r \in found : TRUE).id
               /\ UNCHANGED <<wh, committed>>
          ELSE /\ source_id' = NextId(wh.source)
               /\ wh' = [wh EXCEPT !.source =
                            @ \cup {[id |-> source_id', name |-> ChatName]}]
               /\ committed' = wh'
    /\ ipc' = LoopHead(idx)
    /\ UNCHANGED <<lstore, idx, imported, iruns, contact_id, document_id,
                   iresult, impGhost, crawlVars, rlVars, auxVars>>

\* import_single_chat.py:110-128: the next row; find the contact by the
\* exact sender string, insert and commit it when it is not there.
ImpContact ==
    /\ ipc = "contact"
    /\ LET row == Msgs[idx]
           found == ContactLookup(wh, row.sender)
       IN IF row.sender = ""
          THEN /\ contact_id' = 0
               /\ UNCHANGED <<wh, committed>>
          ELSE IF found # {}
          THEN /\ contact_id' = (CHOOSE c \in found : TRUE).id
               /\ UNCHANGED <<wh, committed>>
          ELSE /\ contact_id' = NextId(wh.contact)
               /\ wh' = [wh EXCEPT !.contact =
                            @ \cup {[id |-> contact_id',
                                    canonical |-> row.sender]}]
               /\ committed' = wh'
    /\ ipc' = "document"
    /\ emb' = <<>>
    /\ UNCHANGED <<lstore, idx, imported, iruns, source_id, document_id,
                   iresult, impGhost, crawlVars, rlVars, concVars, mediaVars,
                   toolVars, etext, response>>

\* import_single_chat.py:129-141: insert the document unless its
\* (source_id, ext_id) is taken; when it is, skip the message.
ImpDocument ==
    /\ ipc = "document"
    /\ LET row == Msgs[idx]
       IN IF DocConflict(wh, source_id, row.id)
          THEN /\ ipc' = OnConflict(LoopHead(idx + 1))
               /\ idx' = IF ipc' = "attach" THEN idx ELSE idx + 1
               /\ UNCHANGED <<wh, document_id>>
          ELSE /\ document_id' = NextId(wh.document)
               /\ wh' = [wh EXCEPT !.document =
                            @ \cup {[id |-> document_id',
                                    source_id |-> source_id,
                                    ext_id |-> row.id,
                                    author_contact_id |-> contact_id]}]
               /\ ipc' = "attach"
               /\ UNCHANGED idx
    /\ UNCHANGED <<lstore, committed, imported, iruns, source_id, contact_id,
                   iresult, impGhost, crawlVars, rlVars, auxVars>>

RECURSIVE AddAttachments(_, _, _)
AddAttachments(tbl, doc, n) ==
    IF n = 0 THEN tbl
    ELSE AddAttachments(
            tbl \cup {[id |-> NextId(tbl), document_id |-> doc]}, doc, n - 1)

\* import_single_chat.py:142-153: one attachment row per descriptor of the
\* stored list; a value that does not parse is caught and gives none.
ImpAttach ==
    /\ ipc = "attach"
    /\ LET row == Msgs[idx]
       IN wh' = [wh EXCEPT !.attachment =
                    AddAttachments(@, document_id, DescriptorCount(row.media))]
    /\ ipc' = "passage"
    /\ UNCHANGED <<lstore, committed, idx, imported, iruns, source_id,
                   contact_id, document_id, iresult, impGhost, crawlVars,
                   rlVars, auxVars>>

\* import_single_chat.py:154-178: a passage and its embedding when the text
\* has more than the minimum of words; then the record is counted and the
\* transaction is committed on every CommitEvery-th record. No handler is
\* around the embedding insert: a value the column refuses ends the run.
ImpPassage ==
    /\ ipc = "passage"
    /\ LET row == Msgs[idx]
           passage_text == Strip(row.text)
           pid == NextId(wh.passage)
       IN IF LongEnough(passage_text)
          THEN \E resp \in ImportResponses :
                LET e == get_embedding_from_server(etext, resp, dim)
                IN /\ response' = resp
                   /\ emb' = <<e>>
                   /\ IF VectorAccepts(e)
                      THEN /\ wh' = [wh EXCEPT
                                !.passage = @ \cup
                                    {PassageRow(pid, document_id,
                                                passage_text)},
                                !.passage_embedding = @ \cup
                                    {EmbeddingRow(NextId(wh.passage_embedding),
                                                  pid, e)}]
                           /\ imported' = imported + 1
                           /\ committed' =
                                IF PeriodicCommit(imported') THEN wh'
                                                             ELSE committed
                           /\ idx' = idx + 1
                           /\ ipc' = LoopHead(idx')
                           /\ UNCHANGED iresult
                      ELSE /\ wh' = committed
                           /\ iresult' = "refused"
                           /\ ipc' = "done"
                           /\ UNCHANGED <<committed, imported, idx>>
          ELSE /\ imported' = imported + 1
               /\ committed' = IF PeriodicCommit(imported') THEN wh
                                                            ELSE committed
               /\ idx' = idx + 1
               /\ ipc' = LoopHead(idx')
               /\ UNCHANGED <<wh, iresult, response, emb>>
    /\ UNCHANGED <<lstore, iruns, source_id, contact_id, document_id,
                   impGhost, crawlVars, rlVars, concVars, mediaVars, toolVars,
                   etext>>

\* import_single_chat.py:179-182, 195-196: the final commit.
ImpFinish ==
    /\ ipc = "final"
    /\ committed' = wh
    /\ iresult' = "completed"
    /\ completed' = completed + 1
    /\ afterFirst' = IF completed = 0 THEN wh ELSE afterFirst
    /\ ipc' = "done"
    /\ UNCHANGED <<lstore, wh, idx, imported, iruns, source_id, contact_id,
                   document_id, crawlVars, rlVars, auxVars>>

\* finally: pg_conn.close() (import_single_chat.py:193-196), or the server
\* losing the connection: what the open transaction did is gone, the durable
\* tables are what the last commit left.
RollbackKeeps(view, durable) == view
Rollback(view, durable) == durable

\* A statement of the loop body outside the attachment block raises (the
\* contact lookup or insert, the document insert, the passage insert): no
\* handler is around it, the exception leaves import_chat, and main closes
\* pg_conn, which rolls its open transaction back
\* (import_single_chat.py:110-178, 193-196).
ImpRecordFails ==
    /\ ipc \in {"contact", "document", "passage"}
    /\ wh' = committed
    /\ iresult' = "raised"
    /\ ipc' = "done"
    /\ UNCHANGED <<lstore, committed, idx, imported, iruns, source_id,
                   contact_id, document_id, impGhost, crawlVars, rlVars,
                   auxVars>>

\* The run is interrupted (the process dies): the connection is lost and
\* its open transaction is rolled back.
ImpInterrupted ==
    /\ ipc \notin {"idle", "done"}
    /\ committed' = Rollback(wh, committed)
    /\ wh' = committed'
    /\ iresult' = "failed"
    /\ ipc' = "done"
    /\ UNCHANGED <<lstore, idx, imported, iruns, source_id,
                   contact_id, document_id, impGhost, crawlVars, rlVars, auxVars>>

NextImport ==
    \/ ImpStart
    \/ ImpSource
    \/ ImpContact
    \/ ImpDocument
    \/ ImpAttach
    \/ ImpPassage
    \/ ImpFinish
    \/ ImpRecordFails
    \/ ImpInterrupted

\* The importer alone: crawler and limiter do not move.
InitImporter ==
    /\ InitImport
    /\ InitRL
    /\ InitCrawl
    /\ order = "desc"
    /\ store = {}
    /\ AuxParked

SpecImport == InitImporter /\ [][NextImport]_vars

\* ------------------- two importer instances over one chat and one warehouse

\* What instance i reads (READ COMMITTED): the committed rows and the rows of
\* its own open transaction.
Visible(i) == [t \in DOMAIN pg |-> pg[t] \cup tx[i][t]]

\* The uncommitted rows of the other instances.
OthersTx(i) == [t \in DOMAIN pg |-> UNION {tx[j][t] : j \in Inst \ {i}}]

\* All rows of a table, committed or not: a BIGSERIAL id is taken from a
\* sequence that every instance shares.
AllRows(t) == pg[t] \cup UNION {tx[j][t] : j \in Inst}

\* pg_conn.commit() of instance i.
CommitTx(i) == [t \in DOMAIN pg |-> pg[t] \cup tx[i][t]]

\* UNIQUE(name) of source (db_init.py:40): the insert finds the name taken.
SourceConflict(tables, name) == \E r \in tables.source : r.name = name

\* The answer of the embedding service the concurrent instances get.
FullVector == [kind |-> "ok", array |-> Array(<<dim>>, [i \in 1..dim |-> 1])]

\* main up to the source lookup (import_single_chat.py:185-92).
CStart(i) ==
    /\ inst[i].pc = "idle"
    /\ inst' = [inst EXCEPT ![i].pc = "source", ![i].idx = 1]
    /\ UNCHANGED <<pg, tx>>

\* import_single_chat.py:95-98: SELECT id FROM source WHERE name = chat_id.
CSourceSelect(i) ==
    /\ inst[i].pc = "source"
    /\ LET found == {r \in Visible(i).source : r.name = inst[i].chat}
       IN IF found # {}
          THEN inst' = [inst EXCEPT
                            ![i].source_id = (CHOOSE r \in found : TRUE).id,
                            ![i].pc = LoopHead(1)]
          ELSE inst' = [inst EXCEPT ![i].pc = "source_insert"]
    /\ UNCHANGED <<pg, tx>>

\* import_single_chat.py:100-101: INSERT INTO source. With the name held
\* by another open transaction the statement waits for it to end; with the
\* name committed it raises a unique violation, which nothing catches: the
\* exception leaves import_chat and main closes pg_conn (193-196).
CSourceInsert(i) ==
    /\ inst[i].pc = "source_insert"
    /\ ~SourceConflict(OthersTx(i), inst[i].chat)
    /\ IF SourceConflict(pg, inst[i].chat)
       THEN /\ inst' = [inst EXCEPT ![i].pc = "done", ![i].result = "error"]
            /\ tx' = [tx EXCEPT ![i] = EmptyWarehouse]
       ELSE LET id == NextId(AllRows("source"))
            IN /\ tx' = [tx EXCEPT ![i].source =
                            @ \cup {[id |-> id, name |-> inst[i].chat]}]
               /\ inst' = [inst EXCEPT ![i].source_id = id,
                                       ![i].pc = "source_commit"]
    /\ UNCHANGED pg

\* import_single_chat.py:102: pg_conn.commit().
CSourceCommit(i) ==
    /\ inst[i].pc = "source_commit"
    /\ pg' = CommitTx(i)
    /\ tx' = [tx EXCEPT ![i] = EmptyWarehouse]
    /\ inst' = [inst EXCEPT ![i].pc = LoopHead(1)]

\* import_single_chat.py:110-124: the next row and the contact lookup.
CContactSelect(i) ==
    /\ inst[i].pc = "contact"
    /\ LET row == Msgs[inst[i].idx]
           found == ContactLookup(Visible(i), row.sender)
       IN IF row.sender = ""
          THEN inst' = [inst EXCEPT ![i].contact_id = 0,
                                    ![i].pc = "document"]
          ELSE IF found # {}
          THEN inst' = [inst EXCEPT
                            ![i].contact_id = (CHOOSE c \in found : TRUE).id,
                            ![i].pc = "document"]
          ELSE inst' = [inst EXCEPT ![i].pc = "contact_insert"]
    /\ UNCHANGED <<pg, tx>>

\* import_single_chat.py:126-128: INSERT INTO contact and commit; canonical
\* carries no unique constraint (db_init.py:49), so the insert never waits.
CContactInsert(i) ==
    /\ inst[i].pc = "contact_insert"
    /\ LET id == NextId(AllRows("contact"))
           row == Msgs[inst[i].idx]
       IN /\ pg' = [CommitTx(i) EXCEPT !.contact =
                        @ \cup {[id |-> id, canonical |-> row.sender]}]
          /\ inst' = [inst EXCEPT ![i].contact_id = id,
                                  ![i].pc = "document"]
    /\ tx' = [tx EXCEPT ![i] = EmptyWarehouse]

\* import_single_chat.py:130-141: INSERT INTO document ... ON CONFLICT DO
\* NOTHING. With the pair held by another open transaction the statement
\* waits for it to end; with the pair stored it returns no row and the
\* message is skipped.
CDocument(i) ==
    /\ inst[i].pc = "document"
    /\ LET row == Msgs[inst[i].idx]
           sid == inst[i].source_id
       IN /\ ~DocConflict(OthersTx(i), sid, row.id)
          /\ IF DocConflict(Visible(i), sid, row.id)
             THEN /\ inst' = [inst EXCEPT
                                ![i].idx = @ + 1,
                                ![i].pc = LoopHead(inst[i].idx + 1)]
                  /\ UNCHANGED tx
             ELSE LET id == NextId(AllRows("document"))
                  IN /\ tx' = [tx EXCEPT ![i].document =
                                @ \cup {[id |-> id, source_id |-> sid,
                                        ext_id |-> row.id,
                                        author_contact_id |->
                                            inst[i].contact_id]}]
                     /\ inst' = [inst EXCEPT ![i].document_id = id,
                                             ![i].pc = "details"]
    /\ UNCHANGED pg

\* import_single_chat.py:142-178: the attachments, the passage and its
\* embedding, the count and the periodic commit; none of these statements
\* waits for or is seen by another instance before the commit.
CDetails(i) ==
    /\ inst[i].pc = "details"
    /\ LET row == Msgs[inst[i].idx]
           doc == inst[i].document_id
           passage_text == Strip(row.text)
           pid == NextId(AllRows("passage"))
           e == get_embedding_from_server(etext, FullVector, dim)
           attachments ==
               AddAttachments(AllRows("attachment"), doc,
                              DescriptorCount(row.media))
                   \ AllRows("attachment")
           mine == [tx[i] EXCEPT
                      !.attachment = @ \cup attachments,
                      !.passage = IF LongEnough(passage_text)
                                  THEN @ \cup {PassageRow(pid, doc,
                                                          passage_text)}
                                  ELSE @,
                      !.passage_embedding =
                          IF LongEnough(passage_text)
                          THEN @ \cup {EmbeddingRow(
                                  NextId(AllRows("passage_embedding")),
                                  pid, e)}
                          ELSE @]
           n == inst[i].imported + 1
       IN /\ IF PeriodicCommit(n)
             THEN /\ pg' = [t \in DOMAIN pg |-> pg[t] \cup mine[t]]
                  /\ tx' = [tx EXCEPT ![i] = EmptyWarehouse]
             ELSE /\ tx' = [tx EXCEPT ![i] = mine]
                  /\ UNCHANGED pg
          /\ inst' = [inst EXCEPT ![i].imported = n,
                                  ![i].idx = @ + 1,
                                  ![i].pc = LoopHead(inst[i].idx + 1)]

\* import_single_chat.py:179-182: the final commit; import_chat returns.
CFinal(i) ==
    /\ inst[i].pc = "final"
    /\ pg' = CommitTx(i)
    /\ tx' = [tx EXCEPT ![i] = EmptyWarehouse]
    /\ inst' = [inst EXCEPT ![i].pc = "done", ![i].result = "ok"]

NextConc ==
    /\ \E i \in Inst :
        \/ CStart(i)
        \/ CSourceSelect(i)
        \/ CSourceInsert(i)
        \/ CSourceCommit(i)
        \/ CContactSelect(i)
        \/ CContactInsert(i)
        \/ CDocument(i)
        \/ CDetails(i)
        \/ CFinal(i)
    /\ UNCHANGED <<crawlVars, rlVars, impVars, mediaVars, embVars, toolVars>>

\* Two instances started over an empty warehouse: both on the one chat, or
\* the second on another chat whose LocalStore holds rows of the same ids,
\* senders and texts (str(chat_id) is the source name, import_single_chat.py:
\* 95-100).
InitConc ==
    /\ InitImport
    /\ pg = EmptyWarehouse
    /\ tx = [i \in Inst |-> EmptyWarehouse]
    /\ \E other \in {ChatName, "other"} :
          inst = [i \in Inst |->
                    [pc |-> "idle", idx |-> 0, imported |-> 0,
                     source_id |-> 0, contact_id |-> 0, document_id |-> 0,
                     result |-> "none",
                     chat |-> IF i = 1 THEN ChatName ELSE other]]
    /\ InitCrawl
    /\ order = "desc"
    /\ store = {}
    /\ InitRL
    /\ MediaParked
    /\ EmbedParked
    /\ ToolsParked

SpecConc == InitConc /\ [][NextConc]_vars

\* ------------------------------------------------------------ properties

Fetched == Range(buffer) \cup (IF cur # 0 THEN {cur} ELSE {})
              \cup Ids(Range(messages))

\* C1: a run that starts over a LocalStore whose maximum id is M > 0 is in
\* DELTA_SYNC mode with cursor M, every record it fetches or upserts has an
\* id above M, and no row with id <= M is written or overwritten by it.
C1_Resumption ==
    /\ [](InRun /\ latest_msg_id > 0 =>
            \A i \in Fetched : i > latest_msg_id)
    /\ [][ /\ (pc \in {"idle", "done"} /\ pc' = "wait_count" /\ store # {} =>
                 /\ latest_msg_id' = Max(Ids(store))
                 /\ Mode' = "DELTA_SYNC")
           /\ (InRun /\ latest_msg_id > 0 =>
                 \A r \in store \cup store' :
                    r.id <= latest_msg_id => r \in store /\ r \in store')
         ]_vars

C1_Witness ==
    /\ InRun
    /\ latest_msg_id > 0
    /\ messages # <<>>
    /\ \E r \in store : r.id > latest_msg_id

\* C2: after a run aborted having committed records, a re-invoked run that
\* completes leaves every message of the source chat in LocalStore.
C2_ResumeLosesNothing ==
    (/\ pc = "done"
     /\ result = "True"
     /\ total_count # 0
     /\ everAborted
     /\ ~everSkipped)
    => SourceIds \subseteq Ids(store)

\* C3: LocalStore holds at most one row per message id, and a write of an id
\* that is already stored replaces the row, the row count unchanged.
C3_OneRowPerId ==
    /\ [](\A r1 \in store : \A r2 \in store : r1.id = r2.id => r1 = r2)
    /\ [][store' # store =>
            /\ Cardinality(store' \ store) = 1
            /\ \A m \in store' \ store :
                 Cardinality(store') =
                    IF m.id \in Ids(store) THEN Cardinality(store)
                                           ELSE Cardinality(store) + 1
         ]_vars

C3_Witness ==
    /\ lastReplaced # 0
    /\ \E r \in store : r.id = lastReplaced /\ r.text = 2
    /\ pc = "done"

\* C4: when a fatal iteration/API exception ends a run, download_messages
\* has returned False, no fetch of the run can follow, and every record the
\* run upserted is in LocalStore as it was written.
C4_AbortKeepsCommitted ==
    (pc = "done" /\ exc = "api") =>
        /\ result = "False"
        /\ \A m \in Range(messages) : m \in store
        /\ ~ENABLED (PageFetch \/ NextMessage \/ InsertOk)

C4_Witness ==
    /\ pc = "done"
    /\ exc = "api"
    /\ Len(messages) >= 2

\* C5: an exception raised while one record is processed (media, mapping,
\* store write) never makes the run return False.
C5_RecordErrorsSkipped ==
    ~(pc = "done" /\ result = "False" /\ exc \in {"media", "map", "store"})

\* C6: no one-second window [t, t + 1s) holds more than max_requests
\* returns of wait().
C6_WindowCap ==
    \A i \in DOMAIN returns :
        Cardinality({j \in DOMAIN returns :
                        /\ returns[i] <= returns[j]
                        /\ returns[j] < returns[i] + TicksPerSec})
            <= MaxRequests

\* The window holds max_requests returns and straddles a reset of
\* _window_start.
C6_Witness ==
    /\ Len(returns) = MaxRequests
    /\ window_start > returns[1]
    /\ window_start <= returns[Len(returns)]

\* C7: two consecutive wait() calls return at least the minimum interval
\* apart.
C7_MinSpacing ==
    prevReturn # -1 => last_request_time - prevReturn >= Interval

\* The last wait() slept for the window and the window is full again.
C7_Witness ==
    /\ prevReturn # -1
    /\ windowSlept
    /\ last_request_time - prevReturn >= Interval

\* C8: no two network operations against the source happen without a
\* completed wait() between them.
C8_WaitBeforeEveryNetOp == netSinceWait <= 1

RowCounts(tables) == [t \in DOMAIN tables |-> Cardinality(tables[t])]

\* C9: a second import of the unchanged LocalStore, after a run that
\* completed, leaves every table with the rows the first run left: the same
\* row counts, and no row changed.
C9_IdempotentImport ==
    (ipc = "done" /\ iresult = "completed" /\ completed >= 2) =>
        /\ RowCounts(committed) = RowCounts(afterFirst)
        /\ committed = afterFirst

C9_Witness ==
    /\ ipc = "done"
    /\ iresult = "completed"
    /\ completed >= 2
    /\ Cardinality(committed.document) = NumStored
    /\ committed.contact # {}
    /\ committed.attachment # {}
    /\ committed.passage_embedding # {}

\* C10: the warehouse never holds two documents with one (source_id,
\* ext_id), and the step that finds a message's document stored goes on to
\* the next message with no row inserted.
C10_DocumentUnique ==
    /\ [](\A tables \in {wh, committed} :
            \A d1 \in tables.document : \A d2 \in tables.document :
                (d1.source_id = d2.source_id /\ d1.ext_id = d2.ext_id)
                    => d1 = d2)
    /\ [][(/\ ipc = "document"
           /\ \E d \in wh.document :
                d.source_id = source_id /\ d.ext_id = Msgs[idx].id)
          => /\ wh' = wh \/ wh' = committed
             /\ committed' = committed
             /\ ipc' \in {"contact", "final", "done"}
         ]_vars

\* In a run after a completed one the first message has been skipped.
C10_Witness ==
    /\ completed >= 1
    /\ ipc = "contact"
    /\ idx = 2
    /\ wh = afterFirst
    /\ \E d \in wh.document : d.ext_id = Msgs[1].id

\* C11: when two instances that import one chat into one warehouse have both
\* ended, neither has ended with an error and the warehouse holds, for every
\* message, one document with its attachments, passage and embedding.
C11_ConcurrentImport ==
    (/\ \A i \in Inst : inst[i].pc = "done"
     /\ \A i \in Inst : inst[i].chat = ChatName) =>
        /\ \A i \in Inst : inst[i].result = "ok"
        /\ \A row \in lstore :
            LET docs == {d \in pg.document : d.ext_id = row.id}
                ps == {q \in pg.passage :
                        \E d \in docs : q.document_id = d.id}
                expected == IF row.text.words > MinWords THEN 1 ELSE 0
            IN /\ Cardinality(docs) = 1
               /\ Cardinality({a \in pg.attachment :
                        \E d \in docs : a.document_id = d.id})
                    = DescriptorCount(row.media)
               /\ Cardinality(ps) = expected
               /\ Cardinality({e \in pg.passage_embedding :
                        \E q \in ps : e.passage_id = q.id}) = expected

\* C12: when a statement raises while one message is processed, the run
\* still completes and every other message of the chat ends up committed.
C12_BadRecordSkipped ==
    (ipc = "done" /\ iresult \in {"raised", "refused"}) =>
        \A i \in 1..Len(Msgs) :
            i # idx => \E d \in committed.document : d.ext_id = Msgs[i].id

\* C13: a document of reported size s is skipped without a download, with a
\* descriptor that has no filename, when s is over the cap; at the cap and
\* below it is not skipped, and is downloaded when its file is not on disk.
C13_SizeGate ==
    (mpc = "done" /\ media[mid].kind = "document") =>
        LET s == media[mid].size
        IN IF s > MAX_MEDIA_SIZE
           THEN /\ ret = <<[type |-> "skipped", filename |-> NoName,
                            size |-> s]>>
                /\ mdownloads = 0
           ELSE /\ ret # <<>> =>
                    /\ ret[1].type # "skipped"
                    /\ ret[1].filename # NoName
                /\ diskBefore[mid] = Absent =>
                    /\ mdownloads = 1
                    /\ ret # <<>> => disk[mid] = s /\ ret[1].size = s

\* A document of exactly the cap has been downloaded, next to one of a byte
\* more that has no file.
C13_Witness ==
    /\ mpc = "done"
    /\ media[mid] = [kind |-> "document", size |-> MAX_MEDIA_SIZE]
    /\ diskBefore[mid] = Absent
    /\ mdownloads = 1
    /\ disk[mid] = MAX_MEDIA_SIZE
    /\ ret # <<>>
    /\ \E j \in MediaIds :
        /\ media[j] = [kind |-> "document", size |-> MAX_MEDIA_SIZE + 1]
        /\ disk[j] = Absent

\* C14: a skipped descriptor has no filename and a size over the cap, and
\* the call that made it called no wait(), requested no download and wrote
\* no file; every other descriptor has a filename.
C14_SkippedDescriptor ==
    (mpc = "done" /\ ret # <<>>) =>
        IF ret[1].type = "skipped"
        THEN /\ ret[1].filename = NoName
             /\ ret[1].size > MAX_MEDIA_SIZE
             /\ mwaits = 0
             /\ mdownloads = 0
             /\ disk = diskBefore
        ELSE ret[1].filename # NoName

\* A call returned a skipped descriptor after another one had downloaded.
C14_Witness ==
    /\ mpc = "done"
    /\ ret # <<>>
    /\ ret[1].type = "skipped"
    /\ \E j \in MediaIds : disk[j] # Absent

\* C15: a call that finds the file of the message's name on disk returns the
\* descriptor with that name and the size on disk, with no wait(), no
\* download and the disk unchanged.
C15_ExistingFile ==
    (mpc = "done" /\ diskBefore[mid] # Absent) =>
        /\ ret = <<[type |-> get_media_type(media[mid]),
                    filename |-> <<get_media_type(media[mid]), mid>>,
                    size |-> diskBefore[mid]]>>
        /\ mwaits = 0
        /\ mdownloads = 0
        /\ disk = diskBefore

C15_Witness ==
    /\ mpc = "done"
    /\ diskBefore[mid] # Absent
    /\ ret # <<>>
    /\ ret[1].size = diskBefore[mid]
    /\ mdownloads = 0

\* C16: the step in which the attachment download raises leaves the run
\* going with no media recorded, and the upsert that follows stores the
\* message with an empty media list and returns to the iteration.
C16_DownloadErrorNotFatal ==
    [][ /\ (pc \in {"media", "media_dl"} /\ dlRaised') =>
            /\ pc' = "map"
            /\ media_info' = <<>>
            /\ result' = "none"
            /\ store' = store
        /\ (pc = "map" /\ dlRaised /\ store' # store) =>
            /\ pc' = "iter"
            /\ result' = "none"
            /\ [id |-> cur, text |-> 1, media_files |-> <<>>] \in store'
      ]_vars

\* The message whose download raised is stored and the iterator holds the
\* next one.
C16_Witness ==
    /\ pc = "iter"
    /\ dlRaised
    /\ exc = "media"
    /\ cur \in Ids(Range(messages))
    /\ [id |-> cur, text |-> 1, media_files |-> <<>>] \in store
    /\ buffer # <<>>

\* C17: every committed document whose trimmed text has more than MinWords
\* words has one passage (level P, tokens 0 to the word count, the trimmed
\* text) with one embedding; every other document has neither.
C17_PassagePerLongText ==
    \A d \in committed.document :
        \A row \in {r \in lstore : r.id = d.ext_id} :
            LET ps == {q \in committed.passage : q.document_id = d.id}
                es == {e \in committed.passage_embedding :
                        \E q \in ps : e.passage_id = q.id}
            IN IF row.text.words > MinWords
               THEN /\ Cardinality(ps) = 1
                    /\ Cardinality(es) = 1
                    /\ \A q \in ps :
                        /\ q.level = "P"
                        /\ q.start_tok = 0
                        /\ q.end_tok = row.text.words
                        /\ q.text = [padded |-> FALSE,
                                     words |-> row.text.words]
               ELSE ps = {} /\ es = {}

\* A text of MinWords words has been committed without a passage, one with
\* surrounding whitespace and more words with its passage.
C17_Witness ==
    /\ \E d \in committed.document :
        \E row \in lstore :
            /\ row.id = d.ext_id
            /\ row.text.words = MinWords
    /\ \E d \in committed.document :
        \E row \in lstore :
            /\ row.id = d.ext_id
            /\ row.text.padded
            /\ row.text.words > MinWords
            /\ \E q \in committed.passage : q.document_id = d.id

\* C18: whatever the text and the service's answer, the returned value is a
\* vector of dim entries; a shorter vector is padded with zeros at the end,
\* a longer one cut to its first dim entries.
C18_EmbeddingDim ==
    emb # <<>> =>
        /\ emb[1].shape = <<dim>>
        /\ Len(emb[1].flat) = dim
        /\ (etext = "text" /\ response.kind = "ok"
                /\ Len(response.array.shape) = 1) =>
            \A i \in 1..dim :
                emb[1].flat[i] =
                    IF i <= Len(response.array.flat)
                    THEN response.array.flat[i] ELSE 0

\* C19: after an embedding request that failed the run has not raised, and
\* the message's passage is there with one embedding of dim zeros.
C19_FailedEmbeddingIsZero ==
    (emb # <<>> /\ (response.kind # "ok" \/ Len(response.array.shape) # 1))
        => /\ iresult # "refused"
           /\ (ipc \in {"contact", "final"} \/ iresult = "completed") =>
                \E q \in wh.passage :
                    /\ q.document_id = document_id
                    /\ \E e \in wh.passage_embedding :
                        /\ e.passage_id = q.id
                        /\ e.embedding = [i \in 1..dim |-> 0]

\* C20: the warehouse never holds two contacts of one canonical string,
\* every contact is a sender of the chat, after a completed run every sender
\* has its contact, and a lookup that finds the sender's contact reuses it.
C20_OneContactPerName ==
    /\ [](\A tables \in {wh, committed} :
            /\ \A c1 \in tables.contact : \A c2 \in tables.contact :
                c1.canonical = c2.canonical => c1 = c2
            /\ {c.canonical : c \in tables.contact}
                    \subseteq {r.sender : r \in lstore} \ {""})
    /\ [](completed >= 1 =>
            {c.canonical : c \in committed.contact}
                = {r.sender : r \in lstore} \ {""})
    /\ [][(/\ ipc = "contact"
           /\ ipc' = "document"
           /\ \E c \in wh.contact : c.canonical = Msgs[idx].sender)
          => /\ wh'.contact = wh.contact
             /\ \E c \in wh.contact :
                    c.canonical = Msgs[idx].sender /\ contact_id' = c.id
         ]_vars

\* A later run has found the contact of a sender that an earlier run
\* created, with the contacts of two senders stored.
C20_Witness ==
    /\ completed >= 1
    /\ ipc = "document"
    /\ contact_id # 0
    /\ wh.contact = committed.contact
    /\ Cardinality(committed.contact) = 2

\* C21: a run that completes having upserted at least one record leaves a
\* snapshot file holding exactly the records the run upserted (the stored
\* rows above the run's cursor), each once, in the order the iterator gave
\* them; during the run the file is rewritten with the whole batch each time
\* the batch reaches a multiple of the period, and once more at completion.
C21_Snapshot ==
    /\ [](pc = "done" /\ result = "True" /\ messages_processed >= 1 =>
            /\ file # <<>>
            /\ {file[1][i] : i \in 1..Len(file[1])}
                 = {r \in store : r.id > latest_msg_id}
            /\ \A i, j \in 1..Len(file[1]) :
                 i < j => IF order = "desc"
                          THEN file[1][i].id > file[1][j].id
                          ELSE file[1][i].id < file[1][j].id)
    /\ [][/\ (pc = "map" /\ Len(messages') > Len(messages)
                 /\ Len(messages') % FlushEvery = 0 =>
                     file' = <<messages'>>)
          /\ (pc' = "done" /\ result' = "True" /\ messages # <<>> =>
                 file' = <<messages>>)]_vars

\* A run completed after a periodic save and a later record.
C21_Witness ==
    /\ pc = "done"
    /\ result = "True"
    /\ Len(messages) > FlushEvery
    /\ file = <<messages>>

\* C22: a run goes START, then exactly one of FULL_SYNC and DELTA_SYNC, then
\* ITERATING, then exactly one of COMPLETED and ABORTED: a run begins with
\* the mode that the store's highest id decides, the mode never changes
\* while the run goes on although the run raises that id, the mode is left
\* only into ITERATING, and a final state is entered only from ITERATING.
C22_RunStateMachine ==
    [][/\ (pc \in {"idle", "done"} /\ pc' \notin {"idle", "done"} =>
              /\ pc' = "wait_count"
              /\ latest_msg_id' =
                   (IF store = {} THEN 0
                    ELSE CHOOSE i \in {r.id : r \in store} :
                           \A r \in store : r.id <= i))
       /\ (pc \in {"wait_count", "get_count"} =>
              /\ pc' \in {"wait_count", "get_count", "iter"}
              /\ latest_msg_id' = latest_msg_id)
       /\ (pc \in {"iter", "body_wait", "media", "media_dl", "map"} =>
              /\ pc' \in {"iter", "body_wait", "media", "media_dl", "map",
                          "done"}
              /\ latest_msg_id' = latest_msg_id
              /\ (pc' = "done" => result' \in {"True", "False"}))]_vars

\* C23: the total-count estimate is advisory: whatever value the provider
\* reports (0 included), a run that completes without a failed record has
\* fetched and persisted every message of the source above its cursor.
C23_CountIsAdvisory ==
    pc = "done" /\ result = "True" /\ ~everSkipped =>
        \A i \in SourceIds :
            i > latest_msg_id => \E r \in store : r.id = i

\* C24: update_chat never changes first_seen of a chat the manifest holds;
\* a successful call leaves the chat's last_seen and last_updated at the
\* call's current time, and with a clock that does not go back neither ever
\* moves to an earlier value.
C24_FirstSeenKept ==
    /\ [][\A c \in ChatIds :
            chats[c] # <<>> =>
                /\ chats'[c] # <<>>
                /\ chats'[c][1].first_seen = chats[c][1].first_seen
                /\ chats'[c][1].last_seen >= chats[c][1].last_seen
                /\ chats'[c][1].last_updated >= chats[c][1].last_updated]_vars
    /\ [](mlast.ret = "True" =>
            /\ chats[mlast.chat_id] # <<>>
            /\ chats[mlast.chat_id][1].last_seen = mlast.current_time
            /\ chats[mlast.chat_id][1].last_updated = mlast.current_time)

\* A chat inserted at one time has been updated by a call at a later time.
C24_Witness ==
    /\ mlast.ret = "True"
    /\ chats[mlast.chat_id] # <<>>
    /\ chats[mlast.chat_id][1].first_seen < mlast.current_time
    /\ chats[mlast.chat_id][1].last_seen = mlast.current_time

\* C25: when the manifest is absent, the chat's store is absent or the chat
\* id is not in the manifest, the importer and the memo generator stop with
\* an error before the warehouse connection is opened and before any
\* warehouse row or output file is written.
C25_FailFast ==
    /\ (pre.pg_open \/ pre.wrote =>
            /\ pre.manifest
            /\ pre.chat_id \in pre.listed
            /\ pre.chat_id \in pre.stores)
    /\ (pre.asked # 0 /\ pre.asked \notin pre.listed =>
            pre.pc = "exit" /\ pre.status = "error")
    /\ (pre.pc = "exit" /\ pre.tool # "none" /\ pre.status = "ok" =>
            /\ pre.manifest
            /\ pre.chat_id \in pre.listed
            /\ pre.chat_id \in pre.stores)

\* C26: the importer commits on every CommitEvery-th newly imported record
\* and at the end, so fewer than CommitEvery fully imported records are ever
\* uncommitted; a committed record has all its rows, a commit never loses
\* one, and a crash leaves exactly what the last commit held.
C26_BatchedCommit ==
    /\ [](Cardinality({d \in wh.document \ committed.document :
                        ~(ipc \in {"attach", "passage"} /\ d.id = document_id)})
            < CommitEvery)
    /\ [](\A d \in committed.document :
            \A row \in {r \in lstore : r.id = d.ext_id} :
                /\ Cardinality({a \in committed.attachment :
                                 a.document_id = d.id})
                     = (IF row.media.json = "list"
                        THEN Len(row.media.files) ELSE 0)
                /\ Cardinality({q \in committed.passage :
                                 q.document_id = d.id})
                     = (IF row.text.words > MinWords THEN 1 ELSE 0))
    /\ [][/\ committed.document \subseteq committed'.document
          /\ (ipc # "done" /\ ipc' = "done" /\ iresult' = "failed" =>
                 wh' = committed /\ committed' = committed)]_vars

\* A crash after a periodic commit: the records of the commit are there.
C26_Witness ==
    /\ ipc = "done"
    /\ iresult = "failed"
    /\ imported >= CommitEvery
    /\ Cardinality(committed.document) >= CommitEvery
    /\ wh = committed

\* C28: a message whose stored media list cannot be parsed gets no
\* attachment row, keeps its document, still goes through the passage step
\* (a passage and an embedding when its text is long enough), and the run
\* goes on to the messages after it.
C28_MalformedMedia ==
    /\ [][ipc = "attach" /\ Msgs[idx].media.json = "bad"
            /\ iresult' # "failed" =>
                /\ wh'.attachment = wh.attachment
                /\ wh'.document = wh.document
                /\ ipc' = "passage"
                /\ iresult' = iresult]_vars
    /\ [](\A d \in committed.document :
            \A row \in {r \in lstore : r.id = d.ext_id} :
                row.media.json = "bad" =>
                    /\ \A a \in committed.attachment : a.document_id # d.id
                    /\ Cardinality({q \in committed.passage :
                                     q.document_id = d.id})
                         = (IF row.text.words > MinWords THEN 1 ELSE 0)
                    /\ Cardinality({e \in committed.passage_embedding :
                                     \E q \in committed.passage :
                                        /\ q.document_id = d.id
                                        /\ e.passage_id = q.id})
                         = (IF row.text.words > MinWords THEN 1 ELSE 0))
    /\ [](ipc = "done" /\ iresult = "completed" =>
            \A row \in lstore :
                \E d \in committed.document : d.ext_id = row.id)

\* A long message with a malformed media list is committed with its passage
\* and without attachment, and so is the message after it.
C28_Witness ==
    \E d, d2 \in committed.document :
        \E row \in lstore :
            /\ row.id = d.ext_id
            /\ row.media.json = "bad"
            /\ row.text.words > MinWords
            /\ \E q \in committed.passage : q.document_id = d.id
            /\ \A a \in committed.attachment : a.document_id # d.id
            /\ d2.ext_id > d.ext_id

\* C29: a message whose stored media list parses to d descriptors has
\* exactly d attachment rows, each referencing the message's document, a
\* skipped descriptor counted like any other; a message without stored
\* media has none.
C29_AttachmentPerDescriptor ==
    /\ \A d \in committed.document :
        \A row \in {r \in lstore : r.id = d.ext_id} :
            Cardinality({a \in committed.attachment : a.document_id = d.id})
                = (IF row.media.json = "list" THEN Len(row.media.files)
                   ELSE 0)
    /\ \A a \in committed.attachment :
        \E d \in committed.document : d.id = a.document_id
    /\ \A a, b \in committed.attachment : a.id = b.id => a = b

\* A message whose one descriptor is a skipped one has its attachment row,
\* a message without stored media has none.
C29_Witness ==
    /\ \E d \in committed.document :
        \E row \in lstore :
            /\ row.id = d.ext_id
            /\ row.media.json = "list"
            /\ Len(row.media.files) = 1
            /\ row.media.files[1].type = "skipped"
            /\ Cardinality({a \in committed.attachment :
                             a.document_id = d.id}) = 1
    /\ \E d \in committed.document :
        \E row \in lstore :
            /\ row.id = d.ext_id
            /\ row.media.json = "null"
            /\ \A a \in committed.attachment : a.document_id # d.id

\* C27: whatever the limiter's state and the arrival time, wait() returns,
\* and the time it asks to sleep is at most one window (one second) plus one
\* minimum interval; from one return to the next the clock advances by no
\* more than the caller's pause, that sleep and the lateness of the sleeps.
C27_BoundedDelay ==
    /\ [](slept >= 0 /\ slept <= TicksPerSec + Interval)
    /\ [][now' - now <= (TicksPerSec + 1) + slept' + 2 * MaxLate]_vars

\* A call that slept for the window and, in all, longer than one interval.
C27_Witness ==
    /\ windowSlept
    /\ slept > Interval
    /\ now = last_request_time

\* C30: the warehouse never holds two contact_alias rows with the same
\* (kind, value) pair, and an INSERT of a pair the table holds leaves the
\* table as it was.
C30_AliasUnique ==
    /\ [](\A a, b \in contact_alias :
            a.kind = b.kind /\ a.value = b.value => a = b)
    /\ [][/\ alias_last'.n > alias_last.n
          /\ \E a \in contact_alias :
                a.kind = alias_last'.kind /\ a.value = alias_last'.value
          => /\ contact_alias' = contact_alias
             /\ alias_last'.outcome # "inserted"]_vars

\* A pair was inserted and a second INSERT of it was refused.
C30_Witness ==
    /\ alias_last.outcome = "unique_violation"
    /\ \E a \in contact_alias :
        /\ a.kind = alias_last.kind
        /\ a.value = alias_last.value
        /\ a.id < alias_last.n
    /\ Cardinality(contact_alias) >= 2

C32_NoEmptySnapshot ==
    pc # "idle" /\ messages_processed = 0 => file = <<>>

\* C33: every record of the batch, and so of the snapshot file, is a
\* committed row of the store, committed by the step that appended it;
\* messages_processed is the length of the batch; a step in which the store
\* write failed leaves the batch as it was.
C33_BatchIsStored ==
    /\ [](pc # "idle" =>
            /\ messages_processed = Len(messages)
            /\ \A i \in 1..Len(messages) : messages[i] \in store
            /\ file # <<>> =>
                 \A i \in 1..Len(file[1]) :
                    \E j \in 1..Len(messages) : messages[j] = file[1][i])
    /\ [][/\ (Len(messages') > Len(messages) =>
                /\ messages'[Len(messages')] \in store'
                /\ messages'[Len(messages')] \notin store)
          /\ (pc = "map" /\ pc' = "iter" /\ store' = store =>
                messages' = messages)]_vars

\* A store write failed for one message while the batch holds another.
C33_Witness ==
    /\ pc = "iter"
    /\ exc = "store"
    /\ cur # 0
    /\ messages # <<>>
    /\ \A i \in 1..Len(messages) : messages[i].id # cur
    /\ \A r \in store : r.id # cur

\* C34: every document of the committed warehouse has all the rows of its
\* message (its attachments and, for a text of more than MinWords words, its
\* passage with its embedding), whatever interrupted the runs before; so a
\* run that completes after interrupted ones leaves, for every stored
\* message, one document with all these rows, and nothing else.
C34_CrashSafe ==
    /\ \A d \in committed.document :
         /\ d.source_id \in {r.id : r \in committed.source}
         /\ \E row \in lstore :
              /\ row.id = d.ext_id
              /\ Cardinality({a \in committed.attachment :
                               a.document_id = d.id})
                   = (IF row.media.json = "list"
                      THEN Len(row.media.files) ELSE 0)
              /\ Cardinality({q \in committed.passage : q.document_id = d.id})
                   = (IF row.text.words > MinWords THEN 1 ELSE 0)
    /\ \A q \in committed.passage :
         /\ \E d \in committed.document : d.id = q.document_id
         /\ Cardinality({e \in committed.passage_embedding :
                          e.passage_id = q.id}) = 1
    /\ \A e \in committed.passage_embedding :
         \E q \in committed.passage : q.id = e.passage_id
    /\ \A a \in committed.attachment :
         \E d \in committed.document : d.id = a.document_id
    /\ (ipc = "done" /\ iresult = "completed" =>
          \A row \in lstore :
             Cardinality({d \in committed.document : d.ext_id = row.id}) = 1)

\* The first run that completes comes after a run that was cut short and
\* had committed the first message with its passage: it imports the rest.
C34_Witness ==
    /\ ipc = "done"
    /\ iresult = "completed"
    /\ completed = 1
    /\ iruns >= 2
    /\ imported >= 1
    /\ imported < NumStored
    /\ \E d \in committed.document :
         /\ d.ext_id = Msgs[1].id
         /\ \E q \in committed.passage : q.document_id = d.id

\* C35: when an import run has completed, every message id of the chat's
\* store has exactly one document with the chat's source id and that id as
\* ext_id, and no document of the source is for anything else; the documents
\* were made in ascending order of the messages' dates, and the loop goes
\* through the messages one position at a time.
C35_OneDocumentPerMessage ==
    /\ [](ipc = "done" /\ iresult = "completed" =>
            /\ \E r \in committed.source : r.id = source_id /\ r.name = ChatName
            /\ \A row \in lstore :
                 Cardinality({d \in committed.document :
                                /\ d.source_id = source_id
                                /\ d.ext_id = row.id}) = 1
            /\ \A d \in committed.document :
                 d.source_id = source_id /\ d.ext_id \in {r.id : r \in lstore})
    /\ [](\A d1 \in wh.document : \A d2 \in wh.document :
            \A r1 \in lstore : \A r2 \in lstore :
               (d1.id < d2.id /\ r1.id = d1.ext_id /\ r2.id = d2.ext_id)
                   => r1.date <= r2.date)
    /\ [][ipc \notin {"idle", "done"} /\ idx' # idx => idx' = idx + 1]_vars

\* One run from an empty warehouse has imported every message.
C35_Witness ==
    /\ ipc = "done"
    /\ iresult = "completed"
    /\ iruns = 1
    /\ imported = NumStored
    /\ Cardinality(committed.document) = NumStored
    /\ \E d1 \in committed.document : \E d2 \in committed.document :
         d1.id < d2.id /\ d1.ext_id < d2.ext_id

\* C36: when two instances import different chats into one warehouse, the
\* warehouse never holds two contacts of one canonical string.
C36_OneContactAcrossChats ==
    (\E i \in Inst : \E j \in Inst : inst[i].chat # inst[j].chat) =>
        \A c1 \in pg.contact : \A c2 \in pg.contact :
            c1.canonical = c2.canonical => c1 = c2

\* C39: after every return of wait() the limiter's window counter is at
\* least 1 and at most max_requests.
C39_CounterInRange ==
    last_request_time # 0 =>
        request_count >= 1 /\ request_count <= MaxRequests

\* The call found the window full, slept for it and set the counter to 1.
C39_Witness ==
    /\ last_request_time # 0
    /\ windowSlept
    /\ request_count = 1
    /\ window_start > prevReturn

\* C37: over the chats one loop crawls one after another, the last return
\* of wait() in one chat and the first in the next are at least the minimum
\* interval apart, and no one-second window holds more than max_requests
\* returns, whichever chats they belong to.
C37_LimitsAcrossChats ==
    LET all == loop.prev_returns \o returns
    IN /\ (loop.prev_last # 0 /\ last_request_time # 0 =>
              last_request_time - loop.prev_last >= Interval)
       /\ \A i \in DOMAIN all :
             Cardinality({j \in DOMAIN all :
                             /\ all[i] <= all[j]
                             /\ all[j] < all[i] + TicksPerSec})
                 <= MaxRequests

====
